---- MODULE Spec2Model ----
(***************************************************************************)
(* Model of the batched-affine Pippenger MSM (createMsm / msm) and of the  *)
(* pure procedures it is built from.                                       *)
(*                                                                         *)
(* Scale.  The curve is y^2 = x^3 + 6 over F_13, a j = 0 curve of prime    *)
(* order 7 with the endomorphism [2](x, y) = (3x, y): the same family as   *)
(* the curves the engine is instantiated with, at a size TLC can           *)
(* enumerate.  A field element is modelled by its canonical value in       *)
(* 0..P-1; the limb representation is a separate concern.                  *)
(***************************************************************************)
EXTENDS Integers, Sequences, FiniteSets, TLC

(***************************************************************************)
(* Curve and layout parameters                                             *)
(***************************************************************************)
\* field modulus p
P == 13
\* curve coefficient b of y^2 = x^3 + b
CurveB == 6
\* group order q
Q == 7
\* cube root of unity in F_p and the matching eigenvalue mod q
beta == 3
lambda == 2
\* the limb field: modulus, number of limbs, bits per limb
FpP == 269
FpN == 3
FpW == 3
\* the msm field's exponent words: bits per limb and number of limbs
msmW == 2
msmLimbs == 2
\* Scalar.maxBits: bit length of a half-scalar
scalarBitlength == 2
\* bytes of a field element, abstracted to one word
sizeField == 1
\* x, y and the nonzero flag
sizeAffine == 2 * sizeField + 1

(***************************************************************************)
(* Bounds of the model                                                     *)
(***************************************************************************)
MaxN == 2
MaxThreads == 4
MaxThreadsData == 2
MaxC == 2
MaxPairs == 2
MaxSmallN == 8
MaxLogN == 19

(***************************************************************************)
(* Arithmetic helpers                                                      *)
(***************************************************************************)
RECURSIVE Pow2(_)
Pow2(n) == IF n = 0 THEN 1 ELSE 2 * Pow2(n - 1)

CeilDiv(a, b) == (a + b - 1) \div b

Min(a, b) == IF a < b THEN a ELSE b

RECURSIVE SeqMax(_)
SeqMax(s) == IF Len(s) = 0 THEN 0
             ELSE LET r == SeqMax(Tail(s)) IN IF Head(s) > r THEN Head(s) ELSE r

(***************************************************************************)
(* Field operations used by the msm (values in 0..P-1)                     *)
(***************************************************************************)
FieldAdd(x, y) == (x + y) % P

subtract(x, y) == (x - y) % P

subtractPositive(x, y) == (x - y) % P

multiply(x, y) == (x * y) % P

\* the limbs of a stored value: msmLimbs words of msmW bits, the top one
\* holding whatever is left
fieldLimbs(x) ==
    [i \in 0..(msmLimbs - 1) |->
        IF i < msmLimbs - 1 THEN (x \div Pow2(msmW * i)) % Pow2(msmW)
        ELSE x \div Pow2(msmW * (msmLimbs - 1))]

\* isEqual: if (x[i] !== y[i]) return false, for every limb; the stored
\* limbs are compared, nothing is reduced first
FieldIsEqual(x, y) == \A i \in 0..(msmLimbs - 1) : fieldLimbs(x)[i] = fieldLimbs(y)[i]

\* inverse traps (wasm unreachable) on zero; callers test for the trap first
inverse(x) == IF x % P = 0 THEN 0 ELSE CHOOSE y \in 1..(P - 1) : (x * y) % P = 1

\* Montgomery's trick: one inverse for the whole array. A zero entry makes
\* the product zero, and inverse(0) traps.
batchInverseTraps(xs) == \E i \in 1..Len(xs) : xs[i] % P = 0

batchInverse(xs) == [i \in 1..Len(xs) |-> inverse(xs[i])]

(***************************************************************************)
(* Affine points: (x, y, nonzero flag)                                     *)
(***************************************************************************)
Affine(x, y, nz) == [x |-> x, y |-> y, nz |-> nz]

OnCurve(x, y) == (y * y) % P = (x * x * x + CurveB) % P

CurvePoints == {Affine(x, y, TRUE) : <<x, y>> \in {xy \in (0..(P-1)) \X (0..(P-1)) : OnCurve(xy[1], xy[2])}}

isZeroAffine(A) == ~A.nz

copyAffine(A) == A

setIsNonZeroAffine(A, flag) == [A EXCEPT !.nz = flag]

\* G3 = G1 + G2 given d = 1/(x2 - x1); G1, G2 nonzero, x1 # x2
addAffine(G1, G2, d) ==
    LET m  == multiply(subtract(G2.y, G1.y), d)
        x3 == subtract(subtract(multiply(m, m), G1.x), G2.x)
        y3 == subtract(multiply(m, subtract(G1.x, x3)), G1.y)
    IN  Affine(x3, y3, TRUE)

\* G3 = 2 * G1 given d = 1/(2 * y1)
doubleAffine(G1, d) ==
    LET m  == multiply(multiply(3, multiply(G1.x, G1.x)), d)
        x3 == subtract(multiply(m, m), FieldAdd(G1.x, G1.x))
        y3 == subtract(multiply(m, subtract(G1.x, x3)), G1.y)
    IN  Affine(x3, y3, TRUE)

endomorphism(A) == [A EXCEPT !.x = multiply(beta, A.x)]

(***************************************************************************)
(* Reference group law (textbook, complete), used to state the claims      *)
(***************************************************************************)
RefZero == Affine(0, 0, FALSE)

RefNorm(A) == IF A.nz THEN A ELSE RefZero

RefAdd(A, B) ==
    IF ~A.nz THEN RefNorm(B)
    ELSE IF ~B.nz THEN A
    ELSE IF A.x = B.x /\ (A.y + B.y) % P = 0 THEN RefZero
    ELSE LET m == IF A.x = B.x
                  THEN (3 * A.x * A.x * inverse(2 * A.y)) % P
                  ELSE ((B.y - A.y) * inverse(B.x - A.x)) % P
             x == (m * m - A.x - B.x) % P
         IN  Affine(x, (m * (A.x - x) - A.y) % P, TRUE)

RECURSIVE RefMul(_, _)
RefMul(s, A) == IF s = 0 THEN RefZero ELSE RefAdd(RefMul(s - 1, A), A)

SamePoint(A, B) == RefNorm(A) = RefNorm(B)

(***************************************************************************)
(* Projective points, kept in normalised form (Z in {0, 1})                *)
(***************************************************************************)
ProjZero == [X |-> 0, Y |-> 1, Z |-> 0]

affineToProjective(A) == IF A.nz THEN [X |-> A.x, Y |-> A.y, Z |-> 1] ELSE ProjZero

projectiveToAffine(Pt) == IF Pt.Z = 0 THEN RefZero ELSE Affine(Pt.X, Pt.Y, TRUE)

addAssignProjective(P1, P2) ==
    affineToProjective(RefAdd(projectiveToAffine(P1), projectiveToAffine(P2)))

doubleInPlaceProjective(P1) == addAssignProjective(P1, P1)

(***************************************************************************)
(* Scalar layer                                                            *)
(***************************************************************************)
\* the unsigned width-bit window of s starting at bit offset
extractBitSlice(s, offset, width) == (s \div Pow2(offset)) % Pow2(width)

\* K, the number of partitions, for half-scalars of the given bit length
partitions(bits, cc) == CeilDiv(bits + 1, cc)

\* L, the number of buckets per partition
bucketsPerPartition(cc) == Pow2(cc - 1)

\* one iteration of the slicing loop: the signed window and the carry out
sliceWithCarry_noFold(scalar, k, cc, carry) ==
    [l |-> extractBitSlice(scalar, k * cc, cc) + carry, carry |-> 0]

sliceWithCarry_offByOne(scalar, k, cc, carry) ==
    LET L == bucketsPerPartition(cc)
        l == extractBitSlice(scalar, k * cc, cc) + carry
    IN  IF l >= L THEN [l |-> 2 * L - l, carry |-> 1] ELSE [l |-> l, carry |-> 0]

sliceWithCarry(scalar, k, cc, carry) ==
    LET L == bucketsPerPartition(cc)
        l == extractBitSlice(scalar, k * cc, cc) + carry
    IN  IF l > L THEN [l |-> 2 * L - l, carry |-> 1] ELSE [l |-> l, carry |-> 0]

\* the Uint32 word l | (carry << 31), as its top bit and its low 31 bits
sliceWord(sl) == [bit31 |-> sl.carry, low31 |-> sl.l]

wordCarry(w) == w.bit31

wordLabel(w) == w.low31

(***************************************************************************)
(* GLV decomposition.  s = (-1)^neg0 * s0 + lambda * (-1)^neg1 * s1 mod q  *)
(* with s0, s1 < 2^scalarBitlength.  On a group this small a balanced      *)
(* decomposition never fills a window, so the one modelled is balanced for *)
(* the scalars below q/2 and the least balanced one within the bit bound   *)
(* for the others: half-scalars of every value below 2^scalarBitlength     *)
(* occur, and so does the carry.  0 decomposes into (0, 0).                *)
(***************************************************************************)
Signed(mag, neg) == IF neg = 1 THEN 0 - mag ELSE mag

ValidDecompositions(s) ==
    {t \in [s0 : 0..(Pow2(scalarBitlength) - 1), s1 : 0..(Pow2(scalarBitlength) - 1),
            neg0 : {0, 1}, neg1 : {0, 1}] :
        (Signed(t.s0, t.neg0) + lambda * Signed(t.s1, t.neg1) - s) % Q = 0}

DecompositionKey(t) == ((t.s0 + t.s1) * 4 + t.s0) * 4 + 2 * t.neg0 + t.neg1

decompose(s) ==
    IF 2 * s < Q
    THEN CHOOSE t \in ValidDecompositions(s) :
            \A u \in ValidDecompositions(s) : DecompositionKey(t) <= DecompositionKey(u)
    ELSE CHOOSE t \in ValidDecompositions(s) :
            \A u \in ValidDecompositions(s) : DecompositionKey(t) >= DecompositionKey(u)

(***************************************************************************)
(* Thread pool: work ranges                                                *)
(***************************************************************************)
\* range(n) on thread t of nThreads: [start, end)
range(n, t, nThreads) ==
    LET nt == CeilDiv(n, nThreads)
    IN  [start |-> Min(n, t * nt), end |-> Min(n, t * nt + nt)]

(***************************************************************************)
(* computeBucketsSplit: chunks of buckets per thread.  chunksPerThread is  *)
(* a sparse array: a thread index that never received a chunk is not in    *)
(* its domain (undefined).                                                 *)
(***************************************************************************)
PushChunk(chunks, thread, chunk) ==
    IF thread \in DOMAIN chunks
    THEN [chunks EXCEPT ![thread] = Append(@, chunk)]
    ELSE [u \in (DOMAIN chunks) \cup {thread} |->
            IF u = thread THEN <<chunk>> ELSE chunks[u]]

\* a plausible slip: a chunk may run on into the next window
chunkLength_acrossWindows(remainingL, remainingWork) == remainingWork

\* length = Math.min(remainingL, remainingWork)
chunkLength(remainingL, remainingWork) == Min(remainingL, remainingWork)

RECURSIVE splitLoop(_, _, _, _)
splitLoop(K, L, nt, st) ==
    IF st.k = K THEN st
    ELSE IF st.remainingL > 0
    THEN LET length == chunkLength(st.remainingL, st.remainingWork)
             chunk  == [k |-> st.k, j |-> st.j, lstart |-> st.lstart, length |-> length]
             rw     == st.remainingWork - length
         IN  splitLoop(K, L, nt,
                [st EXCEPT !.chunksPerThread = PushChunk(@, st.thread, chunk),
                           !.j = @ + 1,
                           !.remainingL = @ - length,
                           !.lstart = @ + length,
                           !.thread = IF rw = 0 THEN @ + 1 ELSE @,
                           !.remainingWork = IF rw = 0 THEN nt ELSE rw])
    ELSE splitLoop(K, L, nt,
                [st EXCEPT !.nChunksPerPartition = Append(@, st.j),
                           !.k = @ + 1, !.j = 0, !.remainingL = L, !.lstart = 1])

\* a plausible slip: one bucket more per thread than range() hands out
workPerThread_oneMore(totalWork, nThreads) == CeilDiv(totalWork, nThreads) + 1

\* nt = Math.ceil(totalWork / THREADS)
workPerThread(totalWork, nThreads) == CeilDiv(totalWork, nThreads)

computeBucketsSplit(K, L, nThreads) ==
    LET nt == workPerThread(K * L, nThreads)
        st == splitLoop(K, L, nt,
                [k |-> 0, j |-> 0, remainingL |-> L, lstart |-> 1, thread |-> 0,
                 remainingWork |-> nt, chunksPerThread |-> <<>>,
                 nChunksPerPartition |-> <<>>])
    IN  [chunksPerThread |-> st.chunksPerThread,
         nChunksPerPartition |-> st.nChunksPerPartition]

(***************************************************************************)
(* Batch-affine additions.  mem maps an address to the affine point stored *)
(* there; S, G, H are arrays (1-based here) of addresses.  The result is   *)
(* the memory afterwards and whether the batch inversion trapped.          *)
(***************************************************************************)
RECURSIVE batchAddClassify(_, _, _, _, _, _)
batchAddClassify(st, S, G, H, n, i) ==
    IF i > n THEN st
    ELSE LET g == st.mem[G[i]]
             h == st.mem[H[i]]
         IN  IF isZeroAffine(g)
             THEN batchAddClassify([st EXCEPT !.mem[S[i]] = copyAffine(h)], S, G, H, n, i + 1)
             ELSE IF isZeroAffine(h)
             THEN batchAddClassify(
                    IF S[i] # G[i] THEN [st EXCEPT !.mem[S[i]] = copyAffine(g)] ELSE st,
                    S, G, H, n, i + 1)
             ELSE IF FieldIsEqual(g.x, h.x)
             THEN IF ~FieldIsEqual(g.y, h.y)
                  THEN batchAddClassify(
                         [st EXCEPT !.mem[S[i]] = setIsNonZeroAffine(@, FALSE)],
                         S, G, H, n, i + 1)
                  ELSE batchAddClassify(
                         [st EXCEPT !.tmp = Append(@, FieldAdd(g.y, g.y)),
                                    !.iDouble = Append(@, i),
                                    !.iBoth[i] = Len(st.tmp) + 1],
                         S, G, H, n, i + 1)
             ELSE batchAddClassify(
                    [st EXCEPT !.tmp = Append(@, subtractPositive(h.x, g.x)),
                               !.iAdd = Append(@, i),
                               !.iBoth[i] = Len(st.tmp) + 1],
                    S, G, H, n, i + 1)

RECURSIVE batchAddApply(_, _, _, _, _, _, _, _)
batchAddApply(mem, d, iBoth, idx, doubling, S, G, H) ==
    IF idx = <<>> THEN mem
    ELSE LET i == Head(idx)
             r == IF doubling
                  THEN doubleAffine(mem[G[i]], d[iBoth[i]])
                  ELSE addAffine(mem[G[i]], mem[H[i]], d[iBoth[i]])
         IN  batchAddApply([mem EXCEPT ![S[i]] = r], d, iBoth, Tail(idx), doubling, S, G, H)

batchAddUnsafe(mem, S, G, H, n) ==
    LET tmp == [i \in 1..n |-> subtractPositive(mem[H[i]].x, mem[G[i]].x)]
        d   == batchInverse(tmp)
        all == [i \in 1..n |-> i]
    IN  [mem |-> batchAddApply(mem, d, all, all, FALSE, S, G, H),
         trap |-> batchInverseTraps(tmp)]

\* a plausible slip: the edge cases are not handled
batchAdd_noEdgeCases(mem, S, G, H, n) == batchAddUnsafe(mem, S, G, H, n)

batchAdd(mem, S, G, H, n) ==
    LET st  == batchAddClassify([mem |-> mem, tmp |-> <<>>, iAdd |-> <<>>, iDouble |-> <<>>,
                                 iBoth |-> [i \in 1..n |-> 0]], S, G, H, n, 1)
        d   == batchInverse(st.tmp)
        m1  == batchAddApply(st.mem, d, st.iBoth, st.iAdd, FALSE, S, G, H)
        m2  == batchAddApply(m1, d, st.iBoth, st.iDouble, TRUE, S, G, H)
    IN  [mem |-> m2, trap |-> batchInverseTraps(st.tmp)]

(***************************************************************************)
(* Counting sort, pass 2                                                   *)
(***************************************************************************)
RECURSIVE integrateLoop(_, _, _, _, _, _)
integrateLoop(counts, bucketsK, L, l, running, runningIndex) ==
    IF l > L THEN [counts |-> counts, bucketsK |-> bucketsK]
    ELSE LET count == counts[l]
             ri    == runningIndex + count * sizeAffine
         IN  integrateLoop([counts EXCEPT ![l] = running],
                           [bucketsK EXCEPT ![l] = ri],
                           L, l + 1, running + count, ri)

integrateBucketCounts_fromZero(bucketCounts, buckets, K, L) ==
    LET r == [k \in 0..(K - 1) |->
                integrateLoop(bucketCounts[k], buckets[k], L, 1, 0, 0)]
    IN  [bucketCounts |-> [k \in 0..(K - 1) |-> r[k].counts],
         buckets      |-> [k \in 0..(K - 1) |-> r[k].bucketsK]]

integrateBucketCounts(bucketCounts, buckets, K, L) ==
    LET r == [k \in 0..(K - 1) |->
                integrateLoop(bucketCounts[k], buckets[k], L, 1, 0, buckets[k][0])]
    IN  [bucketCounts |-> [k \in 0..(K - 1) |-> r[k].counts],
         buckets      |-> [k \in 0..(K - 1) |-> r[k].bucketsK]]

(***************************************************************************)
(* Counting sort, pass 3.  st holds the bucket counts, the bucket memory   *)
(* and the (k, l, address) slots written so far.  pointMem is indexed in   *)
(* units of sizeAffine from pointPtr: 2i is half-scalar i's point, 2i + 1  *)
(* its negation.                                                           *)
(***************************************************************************)
\* ptr = carry === 1 ? negPoint : point, in units of sizeAffine from pointPtr
sortedVariant_ignoresCarry(carry, i) == 2 * i

sortedVariant(carry, i) == IF carry = 1 THEN 2 * i + 1 ELSE 2 * i

RECURSIVE sortPointsK(_, _, _, _, _, _, _)
sortPointsK(st, pointMem, scalarSlicesK, startBucket, k, n2, i) ==
    IF i >= n2 THEN st
    ELSE LET w     == scalarSlicesK[i]
             carry == wordCarry(w)
             l     == wordLabel(w)
         IN  IF l = 0 THEN sortPointsK(st, pointMem, scalarSlicesK, startBucket, k, n2, i + 1)
             ELSE LET l0     == st.bucketCounts[k][l]
                      newPtr == startBucket + l0 * sizeAffine
                      ptr    == sortedVariant(carry, i)
                  IN  sortPointsK([bucketCounts |-> [st.bucketCounts EXCEPT ![k][l] = @ + 1],
                                   mem     |-> [st.mem EXCEPT ![newPtr] = copyAffine(pointMem[ptr])],
                                   written |-> st.written \cup {<<k, l, newPtr>>}],
                                  pointMem, scalarSlicesK, startBucket, k, n2, i + 1)

RECURSIVE sortPoints(_, _, _, _, _, _, _)
sortPoints(st, buckets, pointMem, scalarSlices, n2, k, kend) ==
    IF k >= kend THEN st
    ELSE sortPoints(sortPointsK(st, pointMem, scalarSlices[k], buckets[k][0], k, n2, 0),
                    buckets, pointMem, scalarSlices, n2, k + 1, kend)

(***************************************************************************)
(* Bucket accumulation: the pairs of one pass                              *)
(***************************************************************************)
pairsInBucket_firstPairOnly(bucket, nextBucket, m) ==
    IF bucket + m * sizeAffine < nextBucket
    THEN <<[G |-> bucket, H |-> bucket + m * sizeAffine]>>
    ELSE <<>>

\* a plausible slip: the next pair starts at H, not after it
RECURSIVE pairsInBucket_overlapping(_, _, _)
pairsInBucket_overlapping(bucket, nextBucket, m) ==
    IF bucket + m * sizeAffine < nextBucket
    THEN <<[G |-> bucket, H |-> bucket + m * sizeAffine]>>
            \o pairsInBucket_overlapping(bucket + m * sizeAffine, nextBucket, m)
    ELSE <<>>

RECURSIVE pairsInBucket(_, _, _)
pairsInBucket(bucket, nextBucket, m) ==
    IF bucket + m * sizeAffine < nextBucket
    THEN <<[G |-> bucket, H |-> bucket + m * sizeAffine]>>
            \o pairsInBucket(bucket + 2 * m * sizeAffine, nextBucket, m)
    ELSE <<>>

RECURSIVE collectPairs(_, _, _, _, _)
collectPairs(buckets, L, m, i, iend) ==
    IF i >= iend THEN <<>>
    ELSE LET k == i \div L
             l == (i % L) + 1
         IN  pairsInBucket(buckets[k][l - 1], buckets[k][l], m)
                \o collectPairs(buckets, L, m, i + 1, iend)

(***************************************************************************)
(* Bucket reduction                                                        *)
(***************************************************************************)
\* the projective buckets of one chunk, in a fresh local array (1-based here)
normalizeChunk(oldBuckets, mem, chunk) ==
    [l1 \in 1..chunk.length |->
        LET l          == l1 - 1
            bucket     == oldBuckets[chunk.k][chunk.lstart + l - 1]
            nextBucket == oldBuckets[chunk.k][chunk.lstart + l]
        IN  IF bucket = nextBucket THEN ProjZero ELSE affineToProjective(mem[bucket])]

RECURSIVE triangleRow(_, _, _)
triangleRow(bs, l, st) ==
    IF l < 1 THEN st
    ELSE LET row == addAssignProjective(st.row, bs[l])
         IN  triangleRow(bs, l - 1, [row |-> row, triangle |-> addAssignProjective(st.triangle, row)])

\* a plausible slip: (lstart - 1) * row is left out
doubleAndAdd_leftOut(lstart, st) == st.triangle

RECURSIVE doubleAndAdd(_, _)
doubleAndAdd(lstart, st) ==
    LET tri == IF lstart % 2 = 1 THEN addAssignProjective(st.triangle, st.row) ELSE st.triangle
        nxt == lstart \div 2
    IN  IF nxt = 0 THEN tri
        ELSE doubleAndAdd(nxt, [row |-> doubleInPlaceProjective(st.row), triangle |-> tri])

reduceBucketsColumnProjective(bs, lstart) ==
    doubleAndAdd(lstart - 1, triangleRow(bs, Len(bs), [row |-> ProjZero, triangle |-> ProjZero]))

(***************************************************************************)
(* Partition sums and the final sum                                        *)
(***************************************************************************)
RECURSIVE partitionSum(_, _, _)
partitionSum(columns, j, acc) ==
    IF j >= Len(columns) THEN acc
    ELSE partitionSum(columns, j + 1, addAssignProjective(acc, columns[j + 1]))

\* a plausible slip: one doubling between two partition sums
doubleTimes_once(Pt, n) == doubleInPlaceProjective(Pt)

RECURSIVE doubleTimes(_, _)
doubleTimes(Pt, n) == IF n = 0 THEN Pt ELSE doubleTimes(doubleInPlaceProjective(Pt), n - 1)

RECURSIVE finalSumLoop(_, _, _, _)
finalSumLoop(partialSums, cc, k, finalSum) ==
    IF k < 0 THEN finalSum
    ELSE finalSumLoop(partialSums, cc, k - 1,
                      addAssignProjective(doubleTimes(finalSum, cc), partialSums[k]))

(***************************************************************************)
(* The msm call as a state machine: THREADS threads run msm() in lockstep  *)
(* phases on shared memory.                                                *)
(***************************************************************************)
VARIABLES
    \* the call: N, the thread count, the options c and useSafeAdditions
    \* as passed (0 / "unset" when left out), the inputs
    N, THREADS, optC, optSafe, scalars, points,
    \* shared memory
    pointMem, scalarMem, scalarSlices, bucketCounts, buckets, maxBucketSizes,
    bucketMem, columnss, result,
    \* per thread: position and locals
    pc, li, lk, lcarry, maxBucketSizeLocal, maxBucketSize, m, normalized,
    \* history: writes since the last barrier, barriers passed, the batch
    \* adds made, who wrote and read each column, who sorted into each bucket
    writes, barriers, addKinds, colLog, sortWriters, phaseLog,
    \* a call of batchAdd on its own: the memory before and now, the three
    \* pointer arrays, n, and whether the call is to be made, returned or trapped
    baIn, baMem, baS, baG, baH, baN, baPc,
    \* a call of one of the other functions on its own: which one, its
    \* arguments, and what it returned (empty before it returns)
    fnName, fnArgs, fnRet,
    \* the global arena as the workers enter msm: each worker's allocation
    \* offset and position, the pointers it has computed, and what the main
    \* thread has broadcast (empty before it does)
    globalOffset, arenaPc, pointers, broadcast

inputVars == <<N, THREADS, optC, optSafe, scalars, points>>
sharedVars == <<pointMem, scalarMem, scalarSlices, bucketCounts, buckets, maxBucketSizes,
                bucketMem, columnss, result>>
localVars == <<pc, li, lk, lcarry, maxBucketSizeLocal, maxBucketSize, m, normalized>>
histVars == <<writes, barriers, addKinds, colLog, sortWriters, phaseLog>>
msmVars == <<inputVars, sharedVars, localVars, histVars>>
baVars == <<baIn, baMem, baS, baG, baH, baN, baPc>>
fnVars == <<fnName, fnArgs, fnRet>>
arenaVars == <<globalOffset, arenaPc, pointers, broadcast>>

\* log2 of the input size, rounded up
RECURSIVE log2(_)
log2(n) == IF n <= 1 THEN 0 ELSE 1 + log2((n + 1) \div 2)

\* the window sizes tuned per log-size; 0 where the table has no entry
cTable(n) == CASE n = 14 -> 13 [] n = 15 -> 13 [] n = 16 -> 14 [] n = 17 -> 16 [] n = 18 -> 16
               [] OTHER -> 0

windowSize(n0, c_) ==
    LET n  == log2(n0)
        c1 == IF n - 1 < 1 THEN 1 ELSE n - 1
        c2 == IF cTable(n) # 0 THEN cTable(n) ELSE c1
    IN  IF c_ # 0 THEN c_ ELSE c2

c == windowSize(N, optC)
K == partitions(scalarBitlength, c)
L == bucketsPerPartition(c)
Threads == 0..(THREADS - 1)
isMain(t) == t = 0

\* useSafeAdditions = true unless the caller passes it
defaultUseSafeAdditions_unsafe == FALSE

defaultUseSafeAdditions == TRUE

useSafeAdditions == IF optSafe = "unset" THEN defaultUseSafeAdditions ELSE optSafe = "true"

\* memory a thread has not written yet holds garbage
Uninit == Affine(1, 1, TRUE)
UninitProj == [X |-> 1, Y |-> 1, Z |-> 1]

\* the inputs of the model: the generator G = (2, 1), 2G, -G and the identity
\* (flag cleared, coordinates stale); the scalars 0, 1, 5 and q - 1
ZeroInput == Affine(2, 1, FALSE)

PointInputs == {Affine(2, 1, TRUE), Affine(6, 1, TRUE), Affine(2, 12, TRUE), ZeroInput}

ScalarInputs == {0, 1, 5, Q - 1}

\* the fewer inputs of the runs on larger pools
PoolPointInputs == {Affine(2, 1, TRUE), ZeroInput}

PoolScalarInputs == {0, Q - 1}

\* buckets[k][0]: K consecutive allocations of 2 * N * sizeAffine bytes
bucketBase(k) == k * 2 * N * sizeAffine

BucketAddrs == {a * sizeAffine : a \in 0..(2 * N * K - 1)}

W(arr, i, j, atomic) == [arr |-> arr, i |-> i, j |-> j, atomic |-> atomic]

\* thread t works in the given phase (pass m of the accumulation, or 0)
Log(t, ph, mm) == [phaseLog EXCEPT ![t] = @ \cup {[phase |-> ph, m |-> mm, at |-> barriers]}]

\* the ranges of the loops
prepareRange(t) == range(N, t, THREADS)

sliceRange(t) == LET r == range(N, t, THREADS) IN [start |-> r.start * 2, end |-> r.end * 2]

sortRange_allPartitions(t) == [start |-> 0, end |-> K]

sortRange(t) == range(K, t, THREADS)

accumulateRange_allBuckets(t) == [start |-> 0, end |-> K * L]

accumulateRange(t) == range(K * L, t, THREADS)

\* where a thread goes after a phase: on to the next one, or to a barrier
afterPrepare == "slice"

afterSlice == "wait1"

afterIntegrate == "wait2"

afterSort_noBarrier == "accumulate"

afterSort == "wait3"

afterReduce_noBarrier == "final"

afterReduce == "wait4"

BatchAddIdle ==
    /\ baIn = <<>>
    /\ baMem = <<>>
    /\ baS = <<>>
    /\ baG = <<>>
    /\ baH = <<>>
    /\ baN = 0
    /\ baPc = "idle"

FnIdle ==
    /\ fnName = "none"
    /\ fnArgs = <<>>
    /\ fnRet = <<>>

ArenaIdle ==
    /\ globalOffset = <<>>
    /\ arenaPc = <<>>
    /\ pointers = <<>>
    /\ broadcast = <<>>

\* the state as the threads enter msm(); the shared arrays are zero filled,
\* the point and bucket memory is whatever was there
MsmInitWith(maxThreads, scalarSet, pointSet, optSafeSet) ==
    /\ N \in 1..MaxN
    /\ THREADS \in 1..maxThreads
    /\ optC \in {0} \cup (2..MaxC)
    /\ optSafe \in optSafeSet
    /\ scalars \in [0..(N - 1) -> scalarSet]
    /\ points \in [0..(N - 1) -> pointSet]
    /\ pointMem = [v \in 0..(4 * N - 1) |-> Uninit]
    /\ scalarMem = [i \in 0..(2 * N - 1) |-> Pow2(scalarBitlength) - 1]
    /\ scalarSlices = [k \in 0..(K - 1) |-> [i \in 0..(2 * N - 1) |-> [bit31 |-> 0, low31 |-> 0]]]
    /\ bucketCounts = [k \in 0..(K - 1) |-> [l \in 0..(2 * L + 1) |-> 0]]
    /\ buckets = [k \in 0..(K - 1) |-> [l \in 0..L |-> IF l = 0 THEN bucketBase(k) ELSE 0]]
    /\ maxBucketSizes = [t \in Threads |-> 0]
    /\ bucketMem = [a \in BucketAddrs |-> Uninit]
    /\ columnss = [k \in 0..(K - 1) |->
                     [j1 \in 1..computeBucketsSplit(K, L, THREADS).nChunksPerPartition[k + 1] |->
                        UninitProj]]
    /\ result = UninitProj
    /\ pc = [t \in Threads |-> "prepare"]
    /\ li = [t \in Threads |-> 0]
    /\ lk = [t \in Threads |-> 0]
    /\ lcarry = [t \in Threads |-> 0]
    /\ maxBucketSizeLocal = [t \in Threads |-> 0]
    /\ maxBucketSize = [t \in Threads |-> 0]
    /\ m = [t \in Threads |-> 1]
    /\ normalized = [t \in Threads |-> <<>>]
    /\ writes = [t \in Threads |-> {}]
    /\ barriers = 0
    /\ addKinds = {}
    /\ colLog = [k \in 0..(K - 1) |->
                   [j1 \in DOMAIN columnss[k] |-> [writers |-> {}, writtenAt |-> 0 - 1, readAt |-> 0 - 1]]]
    /\ sortWriters = [k \in 0..(K - 1) |-> [l \in 1..L |-> {}]]
    /\ phaseLog = [t \in Threads |-> {}]
    /\ BatchAddIdle
    /\ FnIdle
    /\ ArenaIdle

\* Atomics.add(typedArray, index, value): adds in one indivisible step and
\* returns the value that was there
atomicsAdd_store(arr, l, v) == [arr |-> [arr EXCEPT ![l] = v], old |-> arr[l]]

atomicsAdd(arr, l, v) == [arr |-> [arr EXCEPT ![l] = @ + v], old |-> arr[l]]

\* if (bucketSize > maxBucketSizeLocal) maxBucketSizeLocal = bucketSize
newMaxBucketSize_firstOnly(bucketSize, local) == IF local = 0 THEN bucketSize ELSE local

newMaxBucketSize(bucketSize, local) == IF bucketSize > local THEN bucketSize ELSE local

(***************************************************************************)
(* Preparation phase 1: the four variants of each point, the half-scalars  *)
(***************************************************************************)
preparePoint(G0, d) ==
    LET negY  == subtract(P, G0.y)
        y     == IF d.neg0 = 1 THEN negY ELSE G0.y
        yNeg  == IF d.neg0 = 1 THEN G0.y ELSE negY
        ex    == endomorphism(G0).x
        same  == d.neg1 = d.neg0
    IN  <<Affine(G0.x, y, G0.nz),
          Affine(G0.x, yNeg, G0.nz),
          Affine(ex, IF same THEN y ELSE yNeg, G0.nz),
          Affine(ex, IF same THEN yNeg ELSE y, G0.nz)>>

Prepare(t) ==
    /\ pc[t] = "prepare"
    /\ phaseLog' = Log(t, "prepare", 0)
    /\ LET r  == prepareRange(t)
           Is == r.start..(r.end - 1)
       IN  /\ pointMem' = [v \in DOMAIN pointMem |->
                             IF (v \div 4) \in Is
                             THEN preparePoint(points[v \div 4], decompose(scalars[v \div 4]))[(v % 4) + 1]
                             ELSE pointMem[v]]
           /\ scalarMem' = [i \in DOMAIN scalarMem |->
                             IF (i \div 2) \in Is
                             THEN LET d == decompose(scalars[i \div 2])
                                  IN  IF i % 2 = 0 THEN d.s0 ELSE d.s1
                             ELSE scalarMem[i]]
           /\ columnss' = IF isMain(t)
                          THEN [k \in DOMAIN columnss |-> [j1 \in DOMAIN columnss[k] |-> ProjZero]]
                          ELSE columnss
           /\ writes' = [writes EXCEPT ![t] = @
                            \cup {W("pointMem", v, 0, FALSE) : v \in {u \in DOMAIN pointMem : (u \div 4) \in Is}}
                            \cup {W("scalarMem", i, 0, FALSE) : i \in {u \in DOMAIN scalarMem : (u \div 2) \in Is}}
                            \cup (IF isMain(t)
                                  THEN UNION {{W("columns", k, j1, FALSE) : j1 \in DOMAIN columnss[k]} : k \in DOMAIN columnss}
                                  ELSE {})]
    /\ pc' = [pc EXCEPT ![t] = afterPrepare]
    /\ li' = [li EXCEPT ![t] = sliceRange(t).start]
    /\ lk' = [lk EXCEPT ![t] = 0]
    /\ lcarry' = [lcarry EXCEPT ![t] = 0]
    /\ UNCHANGED <<baVars, fnVars, arenaVars, inputVars, scalarSlices, bucketCounts, buckets, maxBucketSizes, bucketMem, result>>
    /\ UNCHANGED <<maxBucketSizeLocal, maxBucketSize, m, normalized>>
    /\ UNCHANGED <<barriers, addKinds, colLog, sortWriters>>

(***************************************************************************)
(* Preparation phase 2: one (i, k) iteration of the slicing loop, with its *)
(* atomic increment of the bucket count                                    *)
(***************************************************************************)
SliceStep(t) ==
    /\ pc[t] = "slice"
    /\ phaseLog' = Log(t, "slice", 0)
    /\ li[t] < sliceRange(t).end
    /\ LET i  == li[t]
           k  == lk[t]
           sl == sliceWithCarry(scalarMem[i], k, c, lcarry[t])
           added == atomicsAdd(bucketCounts[k], sl.l, 1)
           bucketSize == added.old + 1
       IN  /\ scalarSlices' = [scalarSlices EXCEPT ![k][i] = sliceWord(sl)]
           /\ IF sl.l # 0
              THEN /\ bucketCounts' = [bucketCounts EXCEPT ![k] = added.arr]
                   /\ maxBucketSizeLocal' = [maxBucketSizeLocal EXCEPT ![t] =
                                               newMaxBucketSize(bucketSize, @)]
                   /\ writes' = [writes EXCEPT ![t] = @ \cup {W("scalarSlices", k, i, FALSE),
                                                             W("bucketCounts", k, sl.l, TRUE)}]
              ELSE /\ UNCHANGED <<bucketCounts, maxBucketSizeLocal>>
                   /\ writes' = [writes EXCEPT ![t] = @ \cup {W("scalarSlices", k, i, FALSE)}]
           /\ IF k + 1 < K
              THEN /\ lk' = [lk EXCEPT ![t] = k + 1]
                   /\ lcarry' = [lcarry EXCEPT ![t] = sl.carry]
                   /\ UNCHANGED li
              ELSE /\ lk' = [lk EXCEPT ![t] = 0]
                   /\ lcarry' = [lcarry EXCEPT ![t] = 0]
                   /\ li' = [li EXCEPT ![t] = i + 1]
    /\ UNCHANGED <<baVars, fnVars, arenaVars, inputVars, pointMem, scalarMem, buckets, maxBucketSizes, bucketMem, columnss, result>>
    /\ UNCHANGED <<pc, maxBucketSize, m, normalized>>
    /\ UNCHANGED <<barriers, addKinds, colLog, sortWriters>>

SliceDone(t) ==
    /\ pc[t] = "slice"
    /\ phaseLog' = Log(t, "slice", 0)
    /\ li[t] >= sliceRange(t).end
    /\ maxBucketSizes' = [maxBucketSizes EXCEPT ![t] = maxBucketSizeLocal[t]]
    /\ writes' = [writes EXCEPT ![t] = @ \cup {W("maxBucketSizes", t, 0, FALSE)}]
    /\ pc' = [pc EXCEPT ![t] = afterSlice]
    /\ UNCHANGED <<baVars, fnVars, arenaVars, inputVars, pointMem, scalarMem, scalarSlices, bucketCounts, buckets, bucketMem, columnss, result>>
    /\ UNCHANGED <<li, lk, lcarry, maxBucketSizeLocal, maxBucketSize, m, normalized>>
    /\ UNCHANGED <<barriers, addKinds, colLog, sortWriters>>

(***************************************************************************)
(* barrier(): returns once every thread of the pool has called it          *)
(***************************************************************************)
afterBarrier(w, t) ==
    CASE w = "wait1" -> "integrate"
      [] w = "wait2" -> "sort"
      [] w = "wait3" -> "accumulate"
      [] w = "wait4" -> IF isMain(t) THEN "final" ELSE "done"

Barrier ==
    /\ \E w \in {"wait1", "wait2", "wait3", "wait4"} :
          /\ \A t \in Threads : pc[t] = w
          /\ pc' = [t \in Threads |-> afterBarrier(w, t)]
    /\ barriers' = barriers + 1
    /\ writes' = [t \in Threads |-> {}]
    /\ UNCHANGED <<baVars, fnVars, arenaVars, inputVars, sharedVars>>
    /\ UNCHANGED <<li, lk, lcarry, maxBucketSizeLocal, maxBucketSize, m, normalized>>
    /\ UNCHANGED <<addKinds, colLog, sortWriters, phaseLog>>

(***************************************************************************)
(* After the first barrier: maxBucketSize, and on the main thread the      *)
(* second pass of the counting sort                                        *)
(***************************************************************************)
Integrate(t) ==
    /\ pc[t] = "integrate"
    /\ phaseLog' = Log(t, "integrate", 0)
    /\ maxBucketSize' = [maxBucketSize EXCEPT ![t] =
                            SeqMax([u \in 1..THREADS |-> maxBucketSizes[u - 1]])]
    /\ IF isMain(t)
       THEN LET r == integrateBucketCounts(bucketCounts, buckets, K, L)
            IN  /\ bucketCounts' = r.bucketCounts
                /\ buckets' = r.buckets
                /\ writes' = [writes EXCEPT ![t] = @
                                \cup {W("bucketCounts", k, l, FALSE) : k \in 0..(K - 1), l \in 1..L}
                                \cup {W("buckets", k, l, FALSE) : k \in 0..(K - 1), l \in 1..L}]
       ELSE UNCHANGED <<bucketCounts, buckets, writes>>
    /\ pc' = [pc EXCEPT ![t] = afterIntegrate]
    /\ UNCHANGED <<baVars, fnVars, arenaVars, inputVars, pointMem, scalarMem, scalarSlices, maxBucketSizes, bucketMem, columnss, result>>
    /\ UNCHANGED <<li, lk, lcarry, maxBucketSizeLocal, m, normalized>>
    /\ UNCHANGED <<barriers, addKinds, colLog, sortWriters>>

(***************************************************************************)
(* Third pass of the counting sort: the points go to their buckets         *)
(***************************************************************************)
SortPoints(t) ==
    /\ pc[t] = "sort"
    /\ phaseLog' = Log(t, "sort", 0)
    /\ LET r  == sortRange(t)
           st == sortPoints([bucketCounts |-> bucketCounts, mem |-> bucketMem, written |-> {}],
                            buckets, pointMem, scalarSlices, 2 * N, r.start, r.end)
       IN  /\ bucketCounts' = st.bucketCounts
           /\ bucketMem' = st.mem
           /\ sortWriters' = [k \in 0..(K - 1) |-> [l \in 1..L |->
                                IF \E w \in st.written : w[1] = k /\ w[2] = l
                                THEN sortWriters[k][l] \cup {t} ELSE sortWriters[k][l]]]
           /\ writes' = [writes EXCEPT ![t] = @
                            \cup {W("bucketCounts", w[1], w[2], FALSE) : w \in st.written}
                            \cup {W("bucketMem", w[3], 0, FALSE) : w \in st.written}]
    /\ pc' = [pc EXCEPT ![t] = afterSort]
    /\ m' = [m EXCEPT ![t] = 1]
    /\ UNCHANGED <<baVars, fnVars, arenaVars, inputVars, pointMem, scalarMem, scalarSlices, buckets, maxBucketSizes, columnss, result>>
    /\ UNCHANGED <<li, lk, lcarry, maxBucketSizeLocal, maxBucketSize, normalized>>
    /\ UNCHANGED <<barriers, addKinds, colLog>>

(***************************************************************************)
(* One iteration of the accumulation loop (one value of m) on one thread   *)
(***************************************************************************)
AccumulatePass(t) ==
    /\ pc[t] = "accumulate"
    /\ phaseLog' = Log(t, "accumulate", m[t])
    /\ m[t] < maxBucketSize[t]
    /\ LET r      == accumulateRange(t)
           pairs  == collectPairs(buckets, L, m[t], r.start, r.end)
           nPairs == Len(pairs)
           G      == [i \in 1..nPairs |-> pairs[i].G]
           H      == [i \in 1..nPairs |-> pairs[i].H]
           res    == IF useSafeAdditions
                     THEN batchAdd(bucketMem, G, G, H, nPairs)
                     ELSE batchAddUnsafe(bucketMem, G, G, H, nPairs)
       IN  IF nPairs = 0
           THEN /\ pc' = pc
                /\ UNCHANGED <<bucketMem, writes, addKinds>>
           ELSE /\ pc' = [pc EXCEPT ![t] = IF res.trap THEN "crashed" ELSE "accumulate"]
                /\ bucketMem' = IF res.trap THEN bucketMem ELSE res.mem
                /\ writes' = IF res.trap THEN writes
                             ELSE [writes EXCEPT ![t] = @ \cup {W("bucketMem", G[i], 0, FALSE) : i \in 1..nPairs}]
                /\ addKinds' = addKinds \cup {[m |-> m[t], safe |-> useSafeAdditions]}
    /\ m' = [m EXCEPT ![t] = 2 * @]
    /\ UNCHANGED <<baVars, fnVars, arenaVars, inputVars, pointMem, scalarMem, scalarSlices, bucketCounts, buckets, maxBucketSizes, columnss, result>>
    /\ UNCHANGED <<li, lk, lcarry, maxBucketSizeLocal, maxBucketSize, normalized>>
    /\ UNCHANGED <<barriers, colLog, sortWriters>>

(***************************************************************************)
(* Bucket reduction, entered as the accumulation loop ends with            *)
(* m >= maxBucketSize: the thread's chunks are normalised to projective    *)
(* buckets and each chunk is reduced into its column.  A thread whose      *)
(* entry of chunksPerThread is undefined fails on reading its length.      *)
(***************************************************************************)
chunkAt(chunks, k, j) == {i \in 1..Len(chunks) : chunks[i].k = k /\ chunks[i].j = j}

Reduce(t) ==
    /\ pc[t] = "accumulate"
    /\ phaseLog' = Log(t, "reduce", 0)
    /\ ~(m[t] < maxBucketSize[t])
    /\ LET split == computeBucketsSplit(K, L, THREADS).chunksPerThread
       IN  IF t \notin DOMAIN split
           THEN /\ pc' = [pc EXCEPT ![t] = "crashed"]
                /\ UNCHANGED <<columnss, normalized, writes, colLog>>
           ELSE LET chunks == split[t]
                    norm   == [i \in 1..Len(chunks) |-> normalizeChunk(buckets, bucketMem, chunks[i])]
                    mine(k, j1) == chunkAt(chunks, k, j1 - 1)
                IN  /\ normalized' = [normalized EXCEPT ![t] = norm]
                    /\ columnss' = [k \in DOMAIN columnss |-> [j1 \in DOMAIN columnss[k] |->
                                      IF mine(k, j1) # {}
                                      THEN LET i == CHOOSE i \in mine(k, j1) : TRUE
                                           IN  reduceBucketsColumnProjective(norm[i], chunks[i].lstart)
                                      ELSE columnss[k][j1]]]
                    /\ colLog' = [k \in DOMAIN colLog |-> [j1 \in DOMAIN colLog[k] |->
                                      IF mine(k, j1) # {}
                                      THEN [colLog[k][j1] EXCEPT !.writers = @ \cup {t},
                                                                 !.writtenAt = barriers]
                                      ELSE colLog[k][j1]]]
                    /\ writes' = [writes EXCEPT ![t] = @
                                    \cup {W("columns", chunks[i].k, chunks[i].j + 1, FALSE) : i \in 1..Len(chunks)}]
                    /\ pc' = [pc EXCEPT ![t] = afterReduce]
    /\ UNCHANGED <<baVars, fnVars, arenaVars, inputVars, pointMem, scalarMem, scalarSlices, bucketCounts, buckets, maxBucketSizes, bucketMem, result>>
    /\ UNCHANGED <<li, lk, lcarry, maxBucketSizeLocal, maxBucketSize, m>>
    /\ UNCHANGED <<barriers, addKinds, sortWriters>>

(***************************************************************************)
(* Third stage, main thread only: the partition sums, in place in column   *)
(* 0 of each partition, and the final sum.  The other threads return.      *)
(***************************************************************************)
FinalSum(t) ==
    /\ pc[t] = "final"
    /\ phaseLog' = Log(t, "final", 0)
    /\ IF ~isMain(t)
       THEN UNCHANGED <<columnss, result, colLog, writes>>
       ELSE LET partialSums == [k \in 0..(K - 1) |-> partitionSum(columnss[k], 1, columnss[k][1])]
            IN  /\ columnss' = [k \in DOMAIN columnss |-> [columnss[k] EXCEPT ![1] = partialSums[k]]]
                /\ result' = finalSumLoop(partialSums, c, K - 2, partialSums[K - 1])
                /\ colLog' = [k \in DOMAIN colLog |-> [j1 \in DOMAIN colLog[k] |->
                                [colLog[k][j1] EXCEPT !.readAt = barriers]]]
                /\ writes' = [writes EXCEPT ![t] = @ \cup {W("columns", k, 1, FALSE) : k \in 0..(K - 1)}
                                                     \cup {W("result", 0, 0, FALSE)}]
    /\ pc' = [pc EXCEPT ![t] = "done"]
    /\ UNCHANGED <<baVars, fnVars, arenaVars, inputVars, pointMem, scalarMem, scalarSlices, bucketCounts, buckets, maxBucketSizes, bucketMem>>
    /\ UNCHANGED <<li, lk, lcarry, maxBucketSizeLocal, maxBucketSize, m, normalized>>
    /\ UNCHANGED <<barriers, addKinds, sortWriters>>

MsmNext ==
    \/ \E t \in Threads : Prepare(t)
    \/ \E t \in Threads : SliceStep(t)
    \/ \E t \in Threads : SliceDone(t)
    \/ Barrier
    \/ \E t \in Threads : Integrate(t)
    \/ \E t \in Threads : SortPoints(t)
    \/ \E t \in Threads : AccumulatePass(t)
    \/ \E t \in Threads : Reduce(t)
    \/ \E t \in Threads : FinalSum(t)

\* msm on one or two threads, over all the inputs of the model
Init == MsmInitWith(MaxThreadsData, ScalarInputs, PointInputs, {"unset", "false"})

Next == MsmNext

vars == <<msmVars, baVars, fnVars, arenaVars>>

Spec == Init /\ [][Next]_vars

\* msm with the default useSafeAdditions on pools of up to MaxThreads threads
InitPool == MsmInitWith(MaxThreads, PoolScalarInputs, PoolPointInputs, {"unset"})

SpecPool == InitPool /\ [][Next]_vars

(***************************************************************************)
(* batchAdd called on its own, on n pairs of points: G[i] and H[i] are any *)
(* points of the curve or the identity, S is G itself or other storage     *)
(***************************************************************************)
BatchAddPoints == CurvePoints \cup {ZeroInput}

MsmIdle ==
    /\ N = 0 /\ THREADS = 0 /\ optC = 0 /\ optSafe = "unset"
    /\ scalars = <<>> /\ points = <<>>
    /\ pointMem = <<>> /\ scalarMem = <<>> /\ scalarSlices = <<>> /\ bucketCounts = <<>>
    /\ buckets = <<>> /\ maxBucketSizes = <<>> /\ bucketMem = <<>> /\ columnss = <<>>
    /\ result = UninitProj
    /\ pc = <<>> /\ li = <<>> /\ lk = <<>> /\ lcarry = <<>> /\ maxBucketSizeLocal = <<>>
    /\ maxBucketSize = <<>> /\ m = <<>> /\ normalized = <<>>
    /\ writes = <<>> /\ barriers = 0 /\ addKinds = {} /\ colLog = <<>> /\ sortWriters = <<>>
    /\ phaseLog = <<>>

BatchAddInit ==
    /\ MsmIdle
    /\ FnIdle
    /\ ArenaIdle
    /\ baN \in 1..MaxPairs
    /\ baG = [i \in 1..baN |-> i]
    /\ baH = [i \in 1..baN |-> baN + i]
    /\ baS \in {baG, [i \in 1..baN |-> 2 * baN + i]}
    /\ \E g \in [1..baN -> BatchAddPoints], h \in [1..baN -> BatchAddPoints] :
          baIn = [a \in 1..(3 * baN) |->
                    IF a <= baN THEN g[a] ELSE IF a <= 2 * baN THEN h[a - baN] ELSE Uninit]
    /\ baMem = baIn
    /\ baPc = "ready"

BatchAddCall ==
    /\ baPc = "ready"
    /\ LET res == batchAdd(baMem, baS, baG, baH, baN)
       IN  /\ baMem' = IF res.trap THEN baMem ELSE res.mem
           /\ baPc' = IF res.trap THEN "trapped" ELSE "returned"
    /\ UNCHANGED <<baIn, baS, baG, baH, baN>>
    /\ UNCHANGED <<msmVars, fnVars, arenaVars>>

BatchAddNext == BatchAddCall

SpecBatchAdd == BatchAddInit /\ [][BatchAddNext]_vars

(***************************************************************************)
(* The choice of the msm parameters c and c0 on its own, over input sizes  *)
(* below, inside and above the tuned table                                 *)
(***************************************************************************)
\* the sub-window sizes tuned per log-size; 0 where the table has no entry
cTable0(n) == CASE n = 14 -> 7 [] n = 15 -> 7 [] n = 16 -> 8 [] n = 17 -> 8 [] n = 18 -> 8
                [] OTHER -> 0

\* c = n - 1; if (c < 1) c = 1
defaultWindow_noClamp(n) == n - 1

defaultWindow(n) == IF n - 1 < 1 THEN 1 ELSE n - 1

\* c0 = c >> 1
defaultSubWindow(cc) == cc \div 2

\* [c, c0] as msm() settles them from N and the options c, c0 (0 when left out)
msmParams(n0, c_, c0_) ==
    LET n   == log2(n0)
        c1  == defaultWindow(n)
        c01 == defaultSubWindow(c1)
        c2  == IF cTable(n) # 0 THEN cTable(n) ELSE c1
        c02 == IF cTable(n) # 0 THEN cTable0(n) ELSE c01
    IN  [c  |-> IF c_ # 0 THEN c_ ELSE c2,
         c0 |-> IF c0_ # 0 THEN c0_ ELSE c02]

ParamSizes ==
    (1..MaxSmallN) \cup {Pow2(k) : k \in 3..MaxLogN} \cup {Pow2(k) + 1 : k \in 3..(MaxLogN - 1)}

ParamsInit ==
    /\ MsmIdle
    /\ BatchAddIdle
    /\ ArenaIdle
    /\ fnName = "msmParams"
    /\ fnArgs \in ParamSizes \X (0..MaxC) \X (0..MaxC)
    /\ fnRet = <<>>

ParamsCall ==
    /\ fnName = "msmParams"
    /\ fnRet = <<>>
    /\ fnRet' = <<msmParams(fnArgs[1], fnArgs[2], fnArgs[3])>>
    /\ UNCHANGED <<fnName, fnArgs, msmVars, baVars, arenaVars>>

ParamsNext == ParamsCall

SpecParams == ParamsInit /\ [][ParamsNext]_vars

(***************************************************************************)
(* The limb field: FpN limbs of FpW bits in 64-bit words (5 limbs of 51    *)
(* bits in the source), the modulus FpP just above half of 2^(FpN * FpW)   *)
(* as the Pallas prime is just above 2^254.  No word comes near 2^63, so   *)
(* the words are modelled as integers: i64.shr_s is the floor division     *)
(* and the mask is the remainder, also for negative words.  A field        *)
(* element is a function from the limb index 0..FpN-1 to its word.         *)
(***************************************************************************)
LimbIdx == 0..(FpN - 1)
top == FpN - 1
limbBase == Pow2(FpW)

\* 2^204 in the source: the weight of the top limb
topWeight == Pow2(FpW * (FpN - 1))

\* the Montgomery radius, 2^255 in the source
FpR == Pow2(FpW * FpN)

\* the limbs of x, all but the top one below 2^FpW
toLimbs(x) == [i \in LimbIdx |-> IF i < top THEN (x \div Pow2(FpW * i)) % limbBase
                                  ELSE x \div topWeight]

RECURSIVE limbSum(_, _)
limbSum(X, i) == IF i > top THEN 0 ELSE X[i] * Pow2(FpW * i) + limbSum(X, i + 1)

fromLimbs(X) == limbSum(X, 0)

FieldP == toLimbs(FpP)

\* carry(): the word shifted right (signed) and the word masked
carry(input) == [carry |-> input \div limbBase, limb |-> input % limbBase]

\* the loop "(carry, z[i]) = t[i] + carry" over the limbs from 0 up; the
\* top limb is carried and masked only if carryTop, else stored as it is
RECURSIVE carryLoop(_, _, _, _)
carryLoop(T, i, cin, carryTop) ==
    IF i > top THEN [z |-> T, carry |-> cin]
    ELSE LET v == T[i] + (IF i > 0 THEN cin ELSE 0)
         IN  IF i < top \/ carryTop
             THEN carryLoop([T EXCEPT ![i] = carry(v).limb], i + 1, carry(v).carry, carryTop)
             ELSE carryLoop([T EXCEPT ![i] = v], i + 1, 0, carryTop)

\* reduceInline(x, carry_): x if x[4] <= p[4], else x - p, limb by limb
\* when no carry local is passed and with carries otherwise
reduceInline_neverSubtracts(X, withCarry) == X

reduceInline(X, withCarry) ==
    IF X[top] <= FieldP[top] THEN X
    ELSE IF withCarry THEN carryLoop([i \in LimbIdx |-> X[i] - FieldP[i]], 0, 0, FALSE).z
    ELSE [i \in LimbIdx |-> X[i] - FieldP[i]]

reduce(X) == reduceInline(X, TRUE)

\* add(z, x, y): the limbs added without carry, reduceInline on them, then
\* the carry pass
add(X, Y) ==
    LET raw == [i \in LimbIdx |-> X[i] + Y[i]]
    IN  carryLoop(reduceInline(raw, FALSE), 0, 0, FALSE).z

\* sub(z, x, y): x - y with carries, then + p if the carry out is -1, then
\* + p again if that addition did not carry out; added counts the additions
sub_addsOnce(X, Y) ==
    LET d == carryLoop([i \in LimbIdx |-> X[i] - Y[i]], 0, 0, TRUE)
        a == carryLoop([i \in LimbIdx |-> d.z[i] + FieldP[i]], 0, 0, TRUE)
    IN  IF d.carry = 0 THEN [z |-> d.z, added |-> 0] ELSE [z |-> a.z, added |-> 1]

sub(X, Y) ==
    LET d == carryLoop([i \in LimbIdx |-> X[i] - Y[i]], 0, 0, TRUE)
        a == carryLoop([i \in LimbIdx |-> d.z[i] + FieldP[i]], 0, 0, TRUE)
        b == carryLoop([i \in LimbIdx |-> a.z[i] + FieldP[i]], 0, 0, TRUE)
    IN  IF d.carry = 0 THEN [z |-> d.z, added |-> 0]
        ELSE IF a.carry # 0 THEN [z |-> a.z, added |-> 1]
        ELSE [z |-> b.z, added |-> 2]

\* x < p, comparing the limbs from the top
RECURSIVE limbsLess(_, _, _)
limbsLess(X, Y, i) ==
    IF i < 0 THEN FALSE
    ELSE IF X[i] < Y[i] THEN TRUE
    ELSE IF X[i] # Y[i] THEN FALSE
    ELSE limbsLess(X, Y, i - 1)

\* fullyReduce(x): if (x >= p) x -= p
fullyReduce(X) ==
    IF limbsLess(X, FieldP, top) THEN X
    ELSE carryLoop([i \in LimbIdx |-> X[i] - FieldP[i]], 0, 0, FALSE).z

\* pInv = inverse(-p, 2^51)
pInv == CHOOSE v \in 0..(limbBase - 1) : (v * (limbBase - (FpP % limbBase))) % limbBase = 1

\* split(x): the low limb and the rest
split51(x) == [lo |-> x % limbBase, hi |-> x \div limbBase]

\* for (j ...) { [lo, hi] = split(a * B[j]); Z[j] += lo; Z[j + 1] += hi }
RECURSIVE maddRow(_, _, _, _)
maddRow(Z, a, B, j) ==
    IF j > top THEN Z
    ELSE LET t == split51(a * B[j])
         IN  maddRow([Z EXCEPT ![j] = @ + t.lo, ![j + 1] = @ + t.hi], a, B, j + 1)

\* one round of montmul: Z += X[i] * Y, Z += qi * P, then the shift by a limb
montmulRound_noCarryOut(Z, Xi, Y) ==
    LET Z1 == maddRow(Z, Xi, Y, 0)
        qi == (Z1[0] * pInv) % limbBase
        Z2 == maddRow(Z1, qi, FieldP, 0)
    IN  [j \in 0..FpN |-> IF j = FpN THEN 0 ELSE Z2[j + 1]]

montmulRound(Z, Xi, Y) ==
    LET Z1 == maddRow(Z, Xi, Y, 0)
        qi == (Z1[0] * pInv) % limbBase
        Z2 == maddRow(Z1, qi, FieldP, 0)
        Z3 == [Z2 EXCEPT ![1] = @ + Z2[0] \div limbBase]
    IN  [j \in 0..FpN |-> IF j = FpN THEN 0 ELSE Z3[j + 1]]

RECURSIVE montmulLoop(_, _, _, _)
montmulLoop(Z, X, Y, i) ==
    IF i > top THEN Z ELSE montmulLoop(montmulRound(Z, X[i], Y), X, Y, i + 1)

\* montmul(x, y) on integers: the value of the limbs Z after FpN rounds
montmul(x, y) ==
    LET Z == montmulLoop([j \in 0..FpN |-> 0], toLimbs(x), toLimbs(y), 0)
    IN  fromLimbs([i \in LimbIdx |-> Z[i]])

(***************************************************************************)
(* add, sub and reduce called on their own over all their inputs           *)
(***************************************************************************)
\* weakly reduced: below p + 2^204
WeaklyReduced == 0..(FpP + topWeight - 1)

FieldInit ==
    /\ MsmIdle
    /\ BatchAddIdle
    /\ ArenaIdle
    /\ fnRet = <<>>
    /\ \/ fnName = "add" /\ fnArgs \in (0..(FpP - 1)) \X (0..(FpP - 1))
       \/ fnName = "sub" /\ fnArgs \in WeaklyReduced \X WeaklyReduced
       \/ fnName = "reduce" /\ fnArgs \in (0..(2 * FpP - 1)) \X {TRUE, FALSE}

AddCall ==
    /\ fnName = "add" /\ fnRet = <<>>
    /\ fnRet' = <<add(toLimbs(fnArgs[1]), toLimbs(fnArgs[2]))>>
    /\ UNCHANGED <<fnName, fnArgs, msmVars, baVars, arenaVars>>

SubCall ==
    /\ fnName = "sub" /\ fnRet = <<>>
    /\ fnRet' = <<sub(toLimbs(fnArgs[1]), toLimbs(fnArgs[2]))>>
    /\ UNCHANGED <<fnName, fnArgs, msmVars, baVars, arenaVars>>

\* reduce (with the carry local) or the reduction of a lane's locals (without)
ReduceCall ==
    /\ fnName = "reduce" /\ fnRet = <<>>
    /\ fnRet' = <<reduceInline(toLimbs(fnArgs[1]), fnArgs[2])>>
    /\ UNCHANGED <<fnName, fnArgs, msmVars, baVars, arenaVars>>

FieldNext == AddCall \/ SubCall \/ ReduceCall

SpecField == FieldInit /\ [][FieldNext]_vars

(***************************************************************************)
(* montmul followed by fullyReduce, over all weakly reduced inputs         *)
(***************************************************************************)
MontmulInit ==
    /\ MsmIdle
    /\ BatchAddIdle
    /\ ArenaIdle
    /\ fnRet = <<>>
    /\ fnName = "montmul"
    /\ fnArgs \in WeaklyReduced \X WeaklyReduced

\* the product as montmul returns it, and its limbs after fullyReduce
MontmulCall ==
    /\ fnName = "montmul" /\ fnRet = <<>>
    /\ LET z == montmul(fnArgs[1], fnArgs[2])
       IN  fnRet' = <<[mul |-> z, reduced |-> fullyReduce(toLimbs(z))]>>
    /\ UNCHANGED <<fnName, fnArgs, msmVars, baVars, arenaVars>>

MontmulNext == MontmulCall

SpecMontmul == MontmulInit /\ [][MontmulNext]_vars

(***************************************************************************)
(* power(x, z, xIn, n) of the msm field: z = xIn^n, the exponent n a plain *)
(* field element in msmLimbs limbs of msmW bits.  st holds z, x, the       *)
(* squarings and multiplications made and the exponent bits examined, in   *)
(* the order they were examined.                                           *)
(***************************************************************************)
\* Field.loadLimb32(n, i)
loadLimb32(n0, i) == (n0 \div Pow2(msmW * i)) % Pow2(msmW)

\* the body of the loop over j: multiply if bit j of the limb is set, then square
powerStep_squareOnSetBit(st, ni, i, j) ==
    LET set == (ni \div Pow2(j)) % 2 = 1
    IN  [z |-> IF set THEN multiply(st.z, st.x) ELSE st.z,
         x |-> IF set THEN multiply(st.x, st.x) ELSE st.x,
         multiplications |-> st.multiplications + (IF set THEN 1 ELSE 0),
         squarings |-> st.squarings + (IF set THEN 1 ELSE 0),
         bits |-> Append(st.bits, msmW * i + j)]

powerStep(st, ni, i, j) ==
    LET set == (ni \div Pow2(j)) % 2 = 1
    IN  [z |-> IF set THEN multiply(st.z, st.x) ELSE st.z,
         x |-> multiply(st.x, st.x),
         multiplications |-> st.multiplications + (IF set THEN 1 ELSE 0),
         squarings |-> st.squarings + 1,
         bits |-> Append(st.bits, msmW * i + j)]

RECURSIVE powerLoop(_, _, _, _)
powerLoop(st, n0, i, j) ==
    IF i >= msmLimbs THEN st
    ELSE IF j >= msmW THEN powerLoop(st, n0, i + 1, 0)
    ELSE powerLoop(powerStep(st, loadLimb32(n0, i), i, j), n0, i, j + 1)

power(xIn, n0) ==
    powerLoop([z |-> 1, x |-> xIn, multiplications |-> 0, squarings |-> 0, bits |-> <<>>],
              n0, 0, 0)

PowInit ==
    /\ MsmIdle
    /\ BatchAddIdle
    /\ ArenaIdle
    /\ fnRet = <<>>
    /\ fnName = "pow"
    /\ fnArgs \in (0..(P - 1)) \X (0..(P - 1))

PowCall ==
    /\ fnName = "pow" /\ fnRet = <<>>
    /\ fnRet' = <<power(fnArgs[1], fnArgs[2])>>
    /\ UNCHANGED <<fnName, fnArgs, msmVars, baVars, arenaVars>>

PowNext == PowCall

SpecPow == PowInit /\ [][PowNext]_vars

(***************************************************************************)
(* reduceBucketsColumnProjective called on its own, on a local array of    *)
(* projective buckets and a first label lstart >= 1                        *)
(***************************************************************************)
MaxBuckets == 3
MaxLstart == 5

ProjInputs == {ProjZero, affineToProjective(Affine(2, 1, TRUE)), affineToProjective(Affine(6, 1, TRUE))}

ReduceColumnInit ==
    /\ MsmIdle
    /\ BatchAddIdle
    /\ ArenaIdle
    /\ fnRet = <<>>
    /\ fnName = "reduceBucketsColumnProjective"
    /\ \E len \in 1..MaxBuckets, lstart \in 1..MaxLstart :
          \E bs \in [1..len -> ProjInputs] : fnArgs = [buckets |-> bs, lstart |-> lstart]

ReduceColumnCall ==
    /\ fnName = "reduceBucketsColumnProjective" /\ fnRet = <<>>
    /\ fnRet' = <<reduceBucketsColumnProjective(fnArgs.buckets, fnArgs.lstart)>>
    /\ UNCHANGED <<fnName, fnArgs, msmVars, baVars, arenaVars>>

ReduceColumnNext == ReduceColumnCall

SpecReduceColumn == ReduceColumnInit /\ [][ReduceColumnNext]_vars

(***************************************************************************)
(* computeBucketsSplit called on its own, for K windows of L buckets on a  *)
(* pool of THREADS threads                                                 *)
(***************************************************************************)
MaxSplitK == 3
MaxSplitL == 4
MaxSplitThreads == 8

SplitInit ==
    /\ MsmIdle
    /\ BatchAddIdle
    /\ ArenaIdle
    /\ fnRet = <<>>
    /\ fnName = "computeBucketsSplit"
    /\ fnArgs \in [K : 1..MaxSplitK, L : 1..MaxSplitL, THREADS : 1..MaxSplitThreads]

SplitCall ==
    /\ fnName = "computeBucketsSplit" /\ fnRet = <<>>
    /\ fnRet' = <<computeBucketsSplit(fnArgs.K, fnArgs.L, fnArgs.THREADS)>>
    /\ UNCHANGED <<fnName, fnArgs, msmVars, baVars, arenaVars>>

SplitNext == SplitCall

SpecSplit == SplitInit /\ [][SplitNext]_vars

(***************************************************************************)
(* The global arena as the workers enter msm.  Every worker runs the same  *)
(* module on the shared memory and keeps its own allocation offset; the    *)
(* arena hands out consecutive addresses.  The buckets are allocated by    *)
(* the main thread only, inside broadcastFromMain; the other workers get   *)
(* the bucket arrays from the broadcast and allocate the same space at     *)
(* once.                                                                   *)
(***************************************************************************)
MaxArenaThreads == 3
MaxArenaStart == 1

sizeProjective == 3 * sizeField + 1
sizeScalar == sizeField

\* Field.global.getPointer(size)
getPointer(offset, size) == [pointer |-> offset, offset |-> offset + size]

\* Field.global.getPointers(n, size)
getPointers(offset, n, size) ==
    [pointers |-> [i \in 1..n |-> offset + (i - 1) * size], offset |-> offset + n * size]

\* for (k < K) buckets[k][0] = Field.global.getPointer(2 * N * sizeAffine)
RECURSIVE allocateBuckets(_, _, _, _)
allocateBuckets(st, n, KK, k) ==
    IF k >= KK THEN st
    ELSE LET a == getPointer(st.offset, 2 * n * sizeAffine)
         IN  allocateBuckets([offset |-> a.offset, buckets |-> Append(st.buckets, a.pointer)],
                             n, KK, k + 1)

\* a plausible slip: the space of one window only
otherThreadsAllocation_oneWindow(n, KK) == 2 * n * sizeAffine

\* if (!isMain()) Field.global.getPointer(2 * N * K * sizeAffine)
otherThreadsAllocation(n, KK) == 2 * n * KK * sizeAffine

\* columnss[k] = Field.global.getPointers(nChunks, sizeProjective), for k < K
RECURSIVE allocateColumns(_, _, _)
allocateColumns(st, nChunksPerPartition, k) ==
    IF k >= Len(nChunksPerPartition) THEN st
    ELSE LET a == getPointers(st.offset, nChunksPerPartition[k + 1], sizeProjective)
         IN  allocateColumns([offset |-> a.offset, columnss |-> Append(st.columnss, a.pointers)],
                             nChunksPerPartition, k + 1)

ArenaThreads == 0..(fnArgs.THREADS - 1)

ArenaInit ==
    /\ MsmIdle
    /\ BatchAddIdle
    /\ fnRet = <<>>
    /\ fnName = "msm"
    /\ \E n \in 1..MaxN, cc \in 1..MaxC, nThreads \in 1..MaxArenaThreads :
          fnArgs = [N |-> n, K |-> partitions(scalarBitlength, cc),
                    L |-> bucketsPerPartition(cc), THREADS |-> nThreads]
    /\ \E start \in 0..MaxArenaStart : globalOffset = [t \in ArenaThreads |-> start]
    /\ arenaPc = [t \in ArenaThreads |-> "result"]
    /\ pointers = [t \in ArenaThreads |-> [result |-> 0, columnss |-> <<>>, pointPtr |-> 0, scalarPtr |-> 0]]
    /\ broadcast = <<>>

\* let result = Field.global.getPointer(sizeProjective)
AllocateResult(t) ==
    /\ arenaPc[t] = "result"
    /\ LET a == getPointer(globalOffset[t], sizeProjective)
       IN  /\ pointers' = [pointers EXCEPT ![t].result = a.pointer]
           /\ globalOffset' = [globalOffset EXCEPT ![t] = a.offset]
    /\ arenaPc' = [arenaPc EXCEPT ![t] = "buckets"]
    /\ UNCHANGED <<broadcast, msmVars, baVars, fnVars>>

\* broadcastFromMain("buckets", ...) on the main thread: build and publish
BroadcastFromMain(t) ==
    /\ arenaPc[t] = "buckets" /\ isMain(t)
    /\ LET st == allocateBuckets([offset |-> globalOffset[t], buckets |-> <<>>],
                                 fnArgs.N, fnArgs.K, 0)
       IN  /\ broadcast' = <<st.buckets>>
           /\ globalOffset' = [globalOffset EXCEPT ![t] = st.offset]
    /\ arenaPc' = [arenaPc EXCEPT ![t] = "columns"]
    /\ UNCHANGED <<pointers, msmVars, baVars, fnVars>>

\* broadcastFromMain on another worker: wait for what main built, then
\* allocate the same space
ReceiveBroadcast(t) ==
    /\ arenaPc[t] = "buckets" /\ ~isMain(t)
    /\ broadcast # <<>>
    /\ globalOffset' = [globalOffset EXCEPT ![t] =
                           getPointer(@, otherThreadsAllocation(fnArgs.N, fnArgs.K)).offset]
    /\ arenaPc' = [arenaPc EXCEPT ![t] = "columns"]
    /\ UNCHANGED <<pointers, broadcast, msmVars, baVars, fnVars>>

AllocateColumns(t) ==
    /\ arenaPc[t] = "columns"
    /\ LET split == computeBucketsSplit(fnArgs.K, fnArgs.L, fnArgs.THREADS)
           st == allocateColumns([offset |-> globalOffset[t], columnss |-> <<>>],
                                 split.nChunksPerPartition, 0)
       IN  /\ pointers' = [pointers EXCEPT ![t].columnss = st.columnss]
           /\ globalOffset' = [globalOffset EXCEPT ![t] = st.offset]
    /\ arenaPc' = [arenaPc EXCEPT ![t] = "prepare"]
    /\ UNCHANGED <<broadcast, msmVars, baVars, fnVars>>

\* preparePointsAndScalars: pointPtr and scalarPtr
AllocatePointsAndScalars(t) ==
    /\ arenaPc[t] = "prepare"
    /\ LET a == getPointer(globalOffset[t], fnArgs.N * 4 * sizeAffine)
           b == getPointer(a.offset, fnArgs.N * 2 * sizeScalar)
       IN  /\ pointers' = [pointers EXCEPT ![t].pointPtr = a.pointer, ![t].scalarPtr = b.pointer]
           /\ globalOffset' = [globalOffset EXCEPT ![t] = b.offset]
    /\ arenaPc' = [arenaPc EXCEPT ![t] = "prepared"]
    /\ UNCHANGED <<broadcast, msmVars, baVars, fnVars>>

ArenaNext ==
    \/ \E t \in ArenaThreads : AllocateResult(t)
    \/ \E t \in ArenaThreads : BroadcastFromMain(t)
    \/ \E t \in ArenaThreads : ReceiveBroadcast(t)
    \/ \E t \in ArenaThreads : AllocateColumns(t)
    \/ \E t \in ArenaThreads : AllocatePointsAndScalars(t)

SpecArena == ArenaInit /\ [][ArenaNext]_vars

(***************************************************************************)
(* batchAdd called on its own on points whose coordinates are only weakly  *)
(* reduced: any stored value below p plus the weight of the top limb       *)
(***************************************************************************)
WeaklyReducedP == 0..(P + Pow2(msmW * (msmLimbs - 1)) - 1)

\* the stored forms of the points of the curve and of the identity
WeakBatchAddPoints ==
    {Affine(x, y, A.nz) : <<x, y, A>> \in
        {xyA \in WeaklyReducedP \X WeaklyReducedP \X BatchAddPoints :
            xyA[1] % P = xyA[3].x /\ xyA[2] % P = xyA[3].y}}

BatchAddWeakInit ==
    /\ MsmIdle
    /\ FnIdle
    /\ ArenaIdle
    /\ baN \in 1..MaxPairs
    /\ baG = [i \in 1..baN |-> i]
    /\ baH = [i \in 1..baN |-> baN + i]
    /\ baS = baG
    /\ \E g \in [1..baN -> WeakBatchAddPoints], h \in [1..baN -> WeakBatchAddPoints] :
          baIn = [a \in 1..(3 * baN) |->
                    IF a <= baN THEN g[a] ELSE IF a <= 2 * baN THEN h[a - baN] ELSE Uninit]
    /\ baMem = baIn
    /\ baPc = "ready"

SpecBatchAddWeak == BatchAddWeakInit /\ [][BatchAddNext]_vars

(***************************************************************************)
(* The claims                                                              *)
(***************************************************************************)
\* the group sum of s_i * G_i over i < n
RECURSIVE RefMsm(_)
RefMsm(n) == IF n = 0 THEN RefZero ELSE RefAdd(RefMsm(n - 1), RefMul(scalars[n - 1], points[n - 1]))

DefaultOptions == optC = 0 /\ optSafe = "unset"

MainReturned == N >= 1 /\ pc[0] = "done"

\* C1: for every N >= 1, all scalars below q, all points and every number
\* of threads T >= 1, msm with default options returns, on the main thread,
\* the group sum of s_i * G_i.  Main returns only after the last barrier,
\* which every thread has to reach: no thread may fail on the way, and once
\* main has returned the result is the sum.
C1_MsmReturnsGroupSum ==
    (N >= 1 /\ DefaultOptions) =>
        /\ \A t \in Threads : pc[t] # "crashed"
        /\ MainReturned => SamePoint(projectiveToAffine(result), RefMsm(N))

Sliced == {i \in 0..(2 * N - 1) : \E t \in Threads : sliceRange(t).start <= i /\ i < li[t]}

SignedDigit(w) == IF wordCarry(w) = 1 THEN 0 - wordLabel(w) ELSE wordLabel(w)

RECURSIVE SignedSum(_, _)
SignedSum(i, k) ==
    IF k >= K THEN 0 ELSE SignedDigit(scalarSlices[k][i]) * Pow2(c * k) + SignedSum(i, k + 1)

\* C3: with L = 2^(c-1) and K = ceil((scalarBitlength + 1) / c), the words
\* (l_k, carry_k) the slicing loop records for a half-scalar s below
\* 2^scalarBitlength satisfy sum over k < K of d_k * 2^(c*k) = s, with
\* d_k = -l_k when carry_k = 1 and +l_k otherwise; every l_k is at most L and
\* the carry out of the last window is 0.
C3_SignedWindowsSum ==
    \A i \in Sliced :
        /\ scalarMem[i] < Pow2(scalarBitlength)
        /\ SignedSum(i, 0) = scalarMem[i]
        /\ wordCarry(scalarSlices[K - 1][i]) = 0
        /\ \A k \in 0..(K - 1) : wordLabel(scalarSlices[k][i]) <= L

\* a half-scalar, sliced to the end, one of whose windows overflowed L
C3_Witness ==
    \E i \in Sliced : \E k \in 0..(K - 1) :
        /\ extractBitSlice(scalarMem[i], k * c, c) > L
        /\ wordCarry(scalarSlices[k][i]) = 1

\* C4: all threads synchronise at a barrier between every two consecutive
\* phases (the steps of the sort/prepare stage, each accumulation pass m,
\* the bucket reduction, the final combination): no thread works in two
\* different phases without passing a barrier in between.
C4_BarrierBetweenPhases ==
    \A t \in Threads : \A e1, e2 \in phaseLog[t] :
        (e1.phase # e2.phase \/ e1.m # e2.m) => e1.at # e2.at

\* the number of barriers a thread has passed when it works in a phase
barriersBefore(ph) ==
    CASE ph \in {"prepare", "slice"} -> 0
      [] ph = "integrate" -> 1
      [] ph = "sort" -> 2
      [] ph \in {"accumulate", "reduce"} -> 3
      [] ph = "final" -> 4

\* C4, as the code has it: there are four barriers, after the slicing and
\* counting loop, after the integration of the counts, after sortPoints and
\* after the bucket reduction.  Preparation and slicing run before the
\* first, every accumulation pass and the bucket reduction between the
\* third and the fourth, the final combination after the fourth.
C4_FourBarriers ==
    /\ barriers <= 4
    /\ \A t \in Threads : \A e \in phaseLog[t] : e.at = barriersBefore(e.phase)

\* a thread has reduced its buckets while another has yet to start pass 2
C4_Witness ==
    \E t, u \in Threads :
        /\ [phase |-> "reduce", m |-> 0, at |-> 3] \in phaseLog[t]
        /\ pc[u] = "accumulate" /\ m[u] = 2 /\ m[u] < maxBucketSize[u]

\* C5: between two consecutive barriers the shared locations written by two
\* different threads are disjoint, except the entries of bucketCounts, and
\* those only as far as both threads write them with the atomic add of the
\* counting loop.
C5_WritesDisjoint ==
    \A t, u \in Threads : t # u =>
        \A w \in writes[t], v \in writes[u] :
            (w.arr = v.arr /\ w.i = v.i /\ w.j = v.j) =>
                (w.arr = "bucketCounts" /\ w.atomic /\ v.atomic)

\* two threads have added to the same bucket count since the last barrier
C5_Witness ==
    \E t, u \in Threads :
        /\ t # u
        /\ \E w \in writes[t] : w.arr = "bucketCounts" /\ w.atomic /\ w \in writes[u]

\* the threads whose chunk list holds the chunk (k, j)
chunkOwners(k, j) ==
    LET split == computeBucketsSplit(K, L, THREADS).chunksPerThread
    IN  {t \in DOMAIN split : chunkAt(split[t], k, j) # {}}

\* C6: for every window k and every j < nChunksPerPartition[k], the bucket
\* reduction writes columns[k][j] on one thread only, the one whose chunk
\* list holds the chunk (k, j), and when main reads the slot for the
\* partition sum that write has been made and a barrier has been passed
\* since.
C6_ColumnWrittenOnceThenRead ==
    \A k \in DOMAIN colLog : \A j1 \in DOMAIN colLog[k] :
        LET e == colLog[k][j1]
        IN  /\ Cardinality(chunkOwners(k, j1 - 1)) = 1
            /\ e.writers \subseteq chunkOwners(k, j1 - 1)
            /\ e.readAt >= 0 => (e.writers = chunkOwners(k, j1 - 1) /\ e.writtenAt < e.readAt)

\* main has read, for the partition sums, a column that another thread wrote
C6_Witness ==
    /\ MainReturned
    /\ \E k \in DOMAIN colLog : \E j1 \in DOMAIN colLog[k] :
          /\ colLog[k][j1].readAt >= 0
          /\ \E t \in colLog[k][j1].writers : t # 0

\* the thread that owns bucket (k, l) in the bucket accumulation
accumulateOwners(k, l) ==
    {t \in Threads : accumulateRange(t).start <= k * L + (l - 1) /\ k * L + (l - 1) < accumulateRange(t).end}

\* C7: sortPoints writes every bucket (k, l) on one thread only, and that
\* thread is the one that owns (k, l) in the bucket accumulation.
C7_SortedByAccumulationOwner ==
    \A k \in DOMAIN sortWriters : \A l \in DOMAIN sortWriters[k] :
        /\ Cardinality(sortWriters[k][l]) <= 1
        /\ sortWriters[k][l] \subseteq accumulateOwners(k, l)

\* C7, as the code has it: sortPoints writes every bucket (k, l) on one
\* thread only, the thread whose range(K) holds k; a bucket no point falls
\* into is written by none.
C7_SortedByPartitionOwner ==
    \A k \in DOMAIN sortWriters : \A l \in DOMAIN sortWriters[k] :
        /\ Cardinality(sortWriters[k][l]) <= 1
        /\ \A t \in sortWriters[k][l] : range(K, t, THREADS).start <= k /\ k < range(K, t, THREADS).end

\* a bucket sorted by one thread and owned, in the accumulation, by another
C7_Witness ==
    \E k \in DOMAIN sortWriters : \E l \in DOMAIN sortWriters[k] :
        /\ sortWriters[k][l] # {}
        /\ sortWriters[k][l] \cap accumulateOwners(k, l) = {}

\* the group sum of s_i * G_i over the i < n whose point is not the identity
RECURSIVE RefMsmNonZero(_)
RefMsmNonZero(n) ==
    IF n = 0 THEN RefZero
    ELSE IF points[n - 1].nz
    THEN RefAdd(RefMsmNonZero(n - 1), RefMul(scalars[n - 1], [points[n - 1] EXCEPT !.nz = TRUE]))
    ELSE RefMsmNonZero(n - 1)

SomeIdentityInput == \E i \in 0..(N - 1) : ~points[i].nz

NoThreadFailed == \A t \in Threads : pc[t] # "crashed"

\* C8: when some input points are the identity (nonzero flag false), msm
\* with default options returns the group sum of s_i * G_i over the other
\* indices only, wherever the identity points land in their buckets: no
\* thread fails on the way to the last barrier, and once main has returned
\* the result is that sum.
C8_IdentityPointsSkipped ==
    (N >= 1 /\ DefaultOptions /\ SomeIdentityInput) =>
        /\ NoThreadFailed
        /\ MainReturned => SamePoint(projectiveToAffine(result), RefMsmNonZero(N))

\* what holds of C8: whenever msm with the default useSafeAdditions does
\* return, the identity points have been skipped
IdentityPointsSkippedOnReturn ==
    (MainReturned /\ optSafe = "unset" /\ SomeIdentityInput) =>
        SamePoint(projectiveToAffine(result), RefMsmNonZero(N))

\* msm has returned a sum other than the identity for an identity point and
\* another point, both with nonzero scalars, after at least one batch add
IdentityPointsSkippedCase ==
    /\ MainReturned /\ optSafe = "unset" /\ N = 2
    /\ ~points[0].nz /\ points[1].nz /\ scalars[0] # 0 /\ scalars[1] # 0
    /\ addKinds # {}
    /\ projectiveToAffine(result).nz

ZeroScalarRun ==
    /\ \A k \in 0..(K - 1) : \A i \in 0..1 : scalarSlices[k][i] = [bit31 |-> 0, low31 |-> 0]
    /\ \A k \in 0..(K - 1) : \A l \in 0..L : bucketCounts[k][l] = 0
    /\ \A t \in Threads : maxBucketSizes[t] = 0 /\ maxBucketSize[t] = 0
    /\ addKinds = {}
    /\ \A t \in Threads : \A e \in phaseLog[t] : e.phase # "accumulate"
    /\ \A t \in Threads : \A i \in DOMAIN normalized[t] : \A l \in DOMAIN normalized[t][i] :
          normalized[t][i][l] = ProjZero
    /\ MainReturned => result = ProjZero

\* C9: msm with N = 1 and the scalar 0 returns the identity: every window
\* slice is 0, no bucket count is incremented, maxBucketSize is 0, no
\* accumulation pass runs, every bucket is normalised to the identity, no
\* thread fails on the way and the final sum is the identity.
C9_ZeroScalar ==
    (N = 1 /\ scalars[0] = 0) => (ZeroScalarRun /\ NoThreadFailed)

\* what holds of C9: all of it but the return itself
ZeroScalarOnReturn == (N = 1 /\ scalars[0] = 0) => ZeroScalarRun

\* msm has returned for N = 1, the scalar 0 and a point other than the
\* identity, on two threads, both having normalised their buckets
ZeroScalarCase ==
    /\ N = 1 /\ scalars[0] = 0 /\ points[0].nz /\ THREADS = 2
    /\ MainReturned
    /\ \A t \in Threads : normalized[t] # <<>>

\* C10: when the caller does not choose, the first accumulation pass
\* (m = 1) uses the unsafe batch add and every later pass (m >= 2) the safe
\* one.
C10_FirstPassUnsafe ==
    optSafe = "unset" =>
        \A e \in addKinds : (e.m = 1 => ~e.safe) /\ (e.m >= 2 => e.safe)

\* C10, as the code has it: useSafeAdditions is one flag of the call and
\* decides every pass alike.  When the caller does not choose, every pass,
\* the first included, uses the safe batch add; when the caller passes
\* false, as msmUnsafe does, every pass uses the unsafe one.
C10_OneFlagForAllPasses ==
    \A e \in addKinds : e.safe = (optSafe = "unset")

\* by default, pass 1 and pass 2 have both run the safe batch add
C10_Witness ==
    /\ optSafe = "unset"
    /\ [m |-> 1, safe |-> TRUE] \in addKinds
    /\ [m |-> 2, safe |-> TRUE] \in addKinds

\* C11 (as stated): without the options c and c0, the parameters are the
\* table entry when n = log2(N) is a key of the table, and c = n - 1,
\* c0 = c / 2 for every other n.
ParamsDefaultCall == fnName = "msmParams" /\ fnRet # <<>> /\ fnArgs[2] = 0 /\ fnArgs[3] = 0

C11_DefaultsOutsideTable ==
    ParamsDefaultCall =>
        LET n == log2(fnArgs[1])
        IN  IF n \in 14..18 THEN fnRet[1] = [c |-> cTable(n), c0 |-> cTable0(n)]
            ELSE fnRet[1].c = n - 1 /\ fnRet[1].c0 = fnRet[1].c \div 2

\* C11 (amended): without the options c and c0, the parameters are the
\* table entry when n is a key of the table; for every other n the window
\* width is n - 1 but never less than 1, and c0 is c / 2 rounded down.
C11_DefaultsClampedOutsideTable ==
    ParamsDefaultCall =>
        LET n == log2(fnArgs[1])
        IN  IF n \in 14..18 THEN fnRet[1] = [c |-> cTable(n), c0 |-> cTable0(n)]
            ELSE /\ fnRet[1].c = (IF n >= 2 THEN n - 1 ELSE 1)
                 /\ fnRet[1].c >= 1
                 /\ 2 * fnRet[1].c0 \in {fnRet[1].c, fnRet[1].c - 1}

\* a default call for an input size of one or two points, where n - 1 < 1
C11_Witness == ParamsDefaultCall /\ log2(fnArgs[1]) < 2 /\ fnRet[1].c = 1 /\ fnRet[1].c0 = 0

\* C12: every label that signed windowing records is at most L = 2^(c-1),
\* and every label used as a bucket label is in 1..L: no entry of
\* bucketCounts[k] outside 1..L is ever incremented or written, and no
\* bucket outside 1..L receives a point.
C12_LabelsInRange ==
    N >= 1 =>
        /\ \A k \in 0..(K - 1) : \A i \in 0..(2 * N - 1) :
              wordLabel(scalarSlices[k][i]) \in 0..L
        /\ \A k \in 0..(K - 1) : \A l \in DOMAIN bucketCounts[k] :
              l \notin 1..L => bucketCounts[k][l] = 0
        /\ \A t \in Threads : \A w \in writes[t] :
              w.arr = "bucketCounts" => w.j \in 1..L
        /\ \A k \in 0..(K - 1) : \A l \in 1..L : \A t \in sortWriters[k][l] :
              \E i \in 0..(2 * N - 1) : wordLabel(scalarSlices[k][i]) = l

\* sortPoints has run with windows of two bits: some slice overflowed L and
\* was folded with a carry, and some label is L itself
C12_Witness ==
    /\ N >= 1 /\ L >= 2 /\ barriers >= 3
    /\ \E k \in 0..(K - 1) : \E i \in 0..(2 * N - 1) : wordCarry(scalarSlices[k][i]) = 1
    /\ \E k \in 0..(K - 1) : \E i \in 0..(2 * N - 1) : wordLabel(scalarSlices[k][i]) = L
    /\ \E k \in 0..(K - 1) : sortWriters[k][L] # {}

\* the number of half-scalars whose recorded label at window k is l
labelCount(k, l) == Cardinality({i \in 0..(2 * N - 1) : wordLabel(scalarSlices[k][i]) = l})

\* every thread is past the first barrier and the main thread has not yet
\* integrated the counts
CountsFinal == N >= 1 /\ barriers = 1 /\ pc[0] = "integrate"

\* the threads whose slicing range holds a half-scalar with label l at window k
countingThreads(k, l) ==
    {t \in Threads : \E i \in sliceRange(t).start..(sliceRange(t).end - 1) :
                        wordLabel(scalarSlices[k][i]) = l}

\* C18: once every worker has finished the slicing loop and passed the
\* first barrier, bucketCounts[k][l] is, for every window k and label l in
\* 1..L, the number of half-scalars i in [0, 2N) whose recorded label at
\* window k is l, whatever the order of the workers' atomic increments.
C18_CountsAreLabelCounts ==
    CountsFinal => \A k \in 0..(K - 1) : \A l \in 1..L : bucketCounts[k][l] = labelCount(k, l)

\* the counts are final and two different threads have added to one bucket
C18_Witness ==
    /\ CountsFinal
    /\ \E k \in 0..(K - 1) : \E l \in 1..L :
          bucketCounts[k][l] >= 2 /\ Cardinality(countingThreads(k, l)) >= 2

MaxOver(S) == IF S = {} THEN 0
              ELSE LET x == CHOOSE y \in S : \A z \in S : z <= y IN x

\* the largest bucket of the call, from the recorded labels
maxLabelCount == MaxOver({labelCount(k, l) : k \in 0..(K - 1), l \in 1..L})

\* C19: after the first barrier every worker computes the same
\* maxBucketSize, the maximum of maxBucketSizes[t] over the threads, and it
\* is the largest final bucket count (0 when every slice is 0), whatever
\* the order of the atomic increments.
C19_MaxBucketSizeIsLargestCount ==
    /\ CountsFinal =>
          /\ SeqMax([u \in 1..THREADS |-> maxBucketSizes[u - 1]]) = maxLabelCount
          /\ maxLabelCount = MaxOver({bucketCounts[k][l] : k \in 0..(K - 1), l \in 1..L})
    /\ (N >= 1 /\ barriers >= 1) =>
          \A t \in Threads : pc[t] # "integrate" =>
              /\ maxBucketSize[t] = maxLabelCount
              /\ maxBucketSize[t] = SeqMax([u \in 1..THREADS |-> maxBucketSizes[u - 1]])

\* every worker has computed maxBucketSize = 2, which no single thread's
\* first increment of a bucket shows: two threads added to the largest bucket
C19_Witness ==
    /\ N >= 1 /\ barriers = 1 /\ THREADS >= 2
    /\ \A t \in Threads : pc[t] = afterIntegrate /\ maxBucketSize[t] = 2
    /\ \E k \in 0..(K - 1) : \E l \in 1..L :
          labelCount(k, l) = 2 /\ Cardinality(countingThreads(k, l)) >= 2

RECURSIVE countSum(_, _, _)
countSum(k, from, to) == IF from > to THEN 0 ELSE labelCount(k, from) + countSum(k, from + 1, to)

\* the main thread has integrated the counts and no thread has started
\* sortPoints
Integrated == N >= 1 /\ barriers = 1 /\ pc[0] = afterIntegrate

\* C20: after integrateBucketCounts, for every window k, buckets[k][0] is
\* unchanged and is the array base, buckets[k][l] for l in 1..L is the base
\* plus sizeAffine times the sum of the pass-1 counts of the buckets 1..l
\* (the end of bucket l), and bucketCounts[k][l] is the sum of the pass-1
\* counts of the buckets 1..l-1 (the start index of bucket l).
C20_CountsIntegrated ==
    Integrated =>
        \A k \in 0..(K - 1) :
            /\ buckets[k][0] = bucketBase(k)
            /\ \A l \in 1..L :
                  /\ buckets[k][l] = buckets[k][0] + sizeAffine * countSum(k, 1, l)
                  /\ bucketCounts[k][l] = countSum(k, 1, l - 1)

\* the counts are integrated for windows of two bits: one window has points
\* in both of its buckets, and a window whose base is not 0 has a point
C20_Witness ==
    /\ Integrated /\ L >= 2
    /\ \E k \in 0..(K - 1) : labelCount(k, 1) >= 1 /\ labelCount(k, 2) >= 1
                            /\ bucketCounts[k][2] >= 1
    /\ \E k \in 1..(K - 1) : labelCount(k, 1) >= 1 /\ buckets[k][0] # 0
                            /\ buckets[k][1] > buckets[k][0]

FnReturned(name) == fnName = name /\ fnRet # <<>>

LimbsCarried(X) == \A i \in LimbIdx : X[i] \in 0..(limbBase - 1)

\* C13: for all x, y below p with carried limbs, add stores x + y when
\* (x + y) >> 204 <= p >> 204 and x + y - p otherwise, with every limb of
\* the result carried into [0, 2^51).
C13_AddIsReducedSum ==
    FnReturned("add") =>
        LET x == fnArgs[1]
            y == fnArgs[2]
        IN  /\ fromLimbs(fnRet[1]) =
                  (IF (x + y) \div topWeight <= FpP \div topWeight THEN x + y ELSE x + y - FpP)
            /\ LimbsCarried(fnRet[1])

\* C14: for all weakly reduced x, y with carried limbs, sub stores a z
\* congruent to x - y modulo p with 0 <= z < p + 2^204 and every limb in
\* [0, 2^51); it adds p not at all when x - y >= 0, once when x - y < 0 and
\* x - y + p >= 0, and twice when x - y + p < 0.
C14_SubWeaklyReduced ==
    FnReturned("sub") =>
        LET x == fnArgs[1]
            y == fnArgs[2]
            z == fromLimbs(fnRet[1].z)
        IN  /\ (z - (x - y)) % FpP = 0
            /\ 0 <= z /\ z < FpP + topWeight
            /\ LimbsCarried(fnRet[1].z)
            /\ fnRet[1].added = (IF x - y >= 0 THEN 0 ELSE IF x - y + FpP >= 0 THEN 1 ELSE 2)
            /\ z = x - y + fnRet[1].added * FpP

\* sub has returned after adding p twice, for an x below p and a weakly
\* reduced y above p
C14_Witness ==
    /\ FnReturned("sub") /\ fnRet[1].added = 2
    /\ fnArgs[1] < FpP /\ fnArgs[2] > FpP
    /\ fromLimbs(fnRet[1].z) = fnArgs[1] - fnArgs[2] + 2 * FpP

\* pU = (p[4] + 1) * 2^204
pU == (FieldP[top] + 1) * topWeight

\* C15: for every x below 2p with carried limbs, reduce leaves x unchanged
\* when x < pU and replaces it by x - p when x >= pU; either way the result
\* is below p + 2^204 and congruent to x modulo p.  The same holds of the
\* value when the limbs are reduced without a carry.
C15_ReduceBelowPU ==
    FnReturned("reduce") =>
        LET x == fnArgs[1]
            z == fromLimbs(fnRet[1])
        IN  /\ z = (IF x < pU THEN x ELSE x - FpP)
            /\ x < pU => fnRet[1] = toLimbs(x)
            /\ z >= 0 /\ z < FpP + topWeight
            /\ (x - z) % FpP = 0
            /\ fnArgs[2] => LimbsCarried(fnRet[1])

\* reduce has subtracted p, once with carries and once without, the latter
\* leaving a negative limb
C15_Witness ==
    /\ FnReturned("reduce") /\ fnArgs[1] >= pU
    /\ fromLimbs(fnRet[1]) = fnArgs[1] - FpP
    /\ ~fnArgs[2] /\ \E i \in LimbIdx : fnRet[1][i] < 0

\* C16: for all weakly reduced x, y, montmul returns a value congruent to
\* x * y * R^(-1) modulo p and below 2p, so that fullyReduce after it
\* leaves exactly x * y * R^(-1) mod p.
C16_MontmulThenFullyReduce ==
    FnReturned("montmul") =>
        LET x == fnArgs[1]
            y == fnArgs[2]
            z == fnRet[1].mul
            r == fromLimbs(fnRet[1].reduced)
        IN  /\ (z * FpR) % FpP = (x * y) % FpP
            /\ 0 <= z /\ z < 2 * FpP
            /\ 0 <= r /\ r < FpP
            /\ (r * FpR) % FpP = (x * y) % FpP
            /\ LimbsCarried(fnRet[1].reduced)

\* montmul of two weakly reduced inputs above p has returned a value of p
\* or more, from which fullyReduce subtracted p
C16_Witness ==
    /\ FnReturned("montmul")
    /\ fnArgs[1] > FpP /\ fnArgs[2] > FpP
    /\ fnRet[1].mul >= FpP
    /\ fromLimbs(fnRet[1].reduced) = fnRet[1].mul - FpP

RECURSIVE RefPow(_, _)
RefPow(x, e) == IF e = 0 THEN 1 ELSE (x * RefPow(x, e - 1)) % P

RECURSIVE bitlen(_)
bitlen(e) == IF e = 0 THEN 0 ELSE 1 + bitlen(e \div 2)

RECURSIVE popcount(_)
popcount(e) == IF e = 0 THEN 0 ELSE (e % 2) + popcount(e \div 2)

\* C17 (as stated): pow computes z = x^n with exactly bitlen(n) squarings
\* and exactly popcount(n) multiplications, for every exponent n given as a
\* plain field element, going through the exponent from its top bit down.
C17_BitlenSquarings ==
    FnReturned("pow") =>
        /\ fnRet[1].z = RefPow(fnArgs[1], fnArgs[2])
        /\ fnRet[1].squarings = bitlen(fnArgs[2])
        /\ fnRet[1].multiplications = popcount(fnArgs[2])
        /\ \A a, b \in DOMAIN fnRet[1].bits : a < b => fnRet[1].bits[a] > fnRet[1].bits[b]

\* C17 (amended): pow computes z = x^n going through all the bits of the
\* exponent's limbs from the lowest bit up: it makes one squaring per bit of
\* the limbs, whatever the exponent, and exactly popcount(n) multiplications.
C17_SquaringPerLimbBit ==
    FnReturned("pow") =>
        /\ fnRet[1].z = RefPow(fnArgs[1], fnArgs[2])
        /\ fnRet[1].squarings = msmLimbs * msmW
        /\ fnRet[1].multiplications = popcount(fnArgs[2])
        /\ fnRet[1].bits = [b \in 1..(msmLimbs * msmW) |-> b - 1]

\* pow has returned for an exponent shorter than the limbs, with bits set
\* in both limbs, and a base other than 0 and 1
C17_Witness ==
    /\ FnReturned("pow") /\ fnArgs[1] > 1
    /\ bitlen(fnArgs[2]) < msmLimbs * msmW
    /\ loadLimb32(fnArgs[2], 0) # 0 /\ loadLimb32(fnArgs[2], 1) # 0
    /\ fnRet[1].squarings > bitlen(fnArgs[2])
    /\ fnRet[1].z = RefPow(fnArgs[1], fnArgs[2])

\* every thread has passed the barrier after sortPoints and none has made
\* an accumulation pass
Sorted == N >= 1 /\ barriers = 3 /\ \A t \in Threads : pc[t] = "accumulate" /\ m[t] = 1

\* the addresses of the range [buckets[k][l-1], buckets[k][l])
bucketRange(k, l) == {a \in BucketAddrs : buckets[k][l - 1] <= a /\ a < buckets[k][l]}

\* the half-scalars whose recorded label at window k is l
labelled(k, l) == {i \in 0..(2 * N - 1) : wordLabel(scalarSlices[k][i]) = l}

\* the variant of point i that its recorded carry at window k selects
variantOf(k, i) ==
    IF wordCarry(scalarSlices[k][i]) = 1 THEN pointMem[2 * i + 1] ELSE pointMem[2 * i]

\* C21: after sortPoints and the barrier that follows it, for every window
\* k and label l in 1..L the range [buckets[k][l-1], buckets[k][l]) holds
\* exactly one copy for each half-scalar whose recorded label at window k is
\* l, the negated variant when the recorded carry is 1 and the other one
\* otherwise; the slots are as many as the copies, and nothing is written
\* outside [buckets[k][0], buckets[k][L]).
C21_BucketsHoldTheirPoints ==
    Sorted =>
        /\ \A k \in 0..(K - 1) : \A l \in 1..L :
              /\ Cardinality(bucketRange(k, l)) = Cardinality(labelled(k, l))
              /\ \A a \in bucketRange(k, l) :
                    Cardinality({b \in bucketRange(k, l) : bucketMem[b] = bucketMem[a]})
                      = Cardinality({i \in labelled(k, l) : variantOf(k, i) = bucketMem[a]})
              /\ \A i \in labelled(k, l) : \E a \in bucketRange(k, l) : bucketMem[a] = variantOf(k, i)
        /\ \A a \in BucketAddrs :
              (\A k \in 0..(K - 1) : ~(buckets[k][0] <= a /\ a < buckets[k][L]))
                 => bucketMem[a] = Uninit

\* sortPoints has run on two threads and some bucket holds two points, one
\* of them a negated variant and one not
C21_Witness ==
    /\ Sorted /\ THREADS = 2
    /\ \E k \in 0..(K - 1) : \E l \in 1..L : \E i, j \in labelled(k, l) :
          /\ wordCarry(scalarSlices[k][i]) = 1 /\ wordCarry(scalarSlices[k][j]) = 0
          /\ pointMem[2 * i + 1] # pointMem[2 * i]
          /\ \E a \in bucketRange(k, l) : bucketMem[a] = pointMem[2 * i + 1]

\* the group sum of the points that pass 3 placed in bucket (k, l)
RECURSIVE RefSumOver(_, _)
RefSumOver(k, S) ==
    IF S = {} THEN RefZero
    ELSE LET i == CHOOSE j \in S : TRUE
         IN  RefAdd(RefSumOver(k, S \ {i}), variantOf(k, i))

bucketSum(k, l) == RefSumOver(k, labelled(k, l))

\* thread t has left the accumulation loop
Accumulated(t) ==
    \/ pc[t] = "accumulate" /\ barriers = 3 /\ ~(m[t] < maxBucketSize[t])
    \/ pc[t] \in {afterReduce, "final", "done"} /\ barriers >= 3

\* the buckets thread t accumulates
accumulatedBy(t) ==
    {kl \in (0..(K - 1)) \X (1..L) :
        LET i == kl[1] * L + kl[2] - 1
        IN  accumulateRange(t).start <= i /\ i < accumulateRange(t).end}

\* C22: with safe additions, once a thread has left the accumulation loop
\* (m = 1, 2, 4, ... while m < maxBucketSize), every non-empty bucket (k, l)
\* of its range holds at buckets[k][l-1] the group sum of all the points
\* pass 3 placed in it, whatever the size of the bucket; and after
\* normalisation a bucket holds that sum, the identity if it is empty.
C22_BucketsHoldTheirSums ==
    (N >= 1 /\ optSafe = "unset") =>
        \A t \in Threads :
            /\ Accumulated(t) =>
                  \A kl \in accumulatedBy(t) :
                      labelled(kl[1], kl[2]) # {} =>
                          SamePoint(bucketMem[buckets[kl[1]][kl[2] - 1]], bucketSum(kl[1], kl[2]))
            /\ normalized[t] # <<>> =>
                  LET chunks == computeBucketsSplit(K, L, THREADS).chunksPerThread[t]
                  IN  \A i \in DOMAIN normalized[t] : \A l1 \in DOMAIN normalized[t][i] :
                          LET k == chunks[i].k
                              l == chunks[i].lstart + l1 - 1
                          IN  /\ SamePoint(projectiveToAffine(normalized[t][i][l1]), bucketSum(k, l))
                              /\ labelled(k, l) = {} => normalized[t][i][l1] = ProjZero

\* with safe additions a thread has normalised its buckets, one of three
\* points whose sum is not the identity and one empty
C22_Witness ==
    /\ N >= 1 /\ optSafe = "unset"
    /\ \E t \in Threads :
          /\ normalized[t] # <<>>
          /\ \E kl \in accumulatedBy(t) :
                /\ Cardinality(labelled(kl[1], kl[2])) = 3
                /\ bucketSum(kl[1], kl[2]).nz
                /\ SamePoint(bucketMem[buckets[kl[1]][kl[2] - 1]], bucketSum(kl[1], kl[2]))
          /\ \E i \in DOMAIN normalized[t] : \E l1 \in DOMAIN normalized[t][i] :
                normalized[t][i][l1] = ProjZero

\* the passes of the accumulation loop: m = 1, 2, 4, ... while m < maxBucketSize
passes(maxSize) == {mm \in 1..maxSize : mm < maxSize /\ \E e \in 0..maxSize : mm = Pow2(e)}

\* the pairs thread t collects in pass mm
pairsOf(t, mm) == collectPairs(buckets, L, mm, accumulateRange(t).start, accumulateRange(t).end)

\* the pairs of pass mm, tagged with the thread that collects them and
\* their place in its list
passPairs(mm) ==
    UNION {{[t |-> t, p |-> p, G |-> pairsOf(t, mm)[p].G, H |-> pairsOf(t, mm)[p].H] :
                p \in 1..Len(pairsOf(t, mm))} : t \in Threads}

\* C23: in every accumulation pass the pairs (G[p], H[p]) collected by all
\* the threads are independent: no address occurs in more than one pair of
\* the pass (nor twice in one pair), H[p] = G[p] + m * sizeAffine, and G[p]
\* and H[p] lie in the range [buckets[k][l-1], buckets[k][l]) of one bucket.
C23_PairsIndependent ==
    Sorted =>
        \A t \in Threads : \A mm \in passes(maxBucketSize[t]) :
            /\ \A a, b \in passPairs(mm) :
                  /\ a.G # a.H
                  /\ a # b => {a.G, a.H} \cap {b.G, b.H} = {}
            /\ \A a \in passPairs(mm) :
                  /\ a.H = a.G + mm * sizeAffine
                  /\ \E k \in 0..(K - 1), l \in 1..L : {a.G, a.H} \subseteq bucketRange(k, l)

\* two threads collect pairs in the same pass, one of them two pairs in
\* one bucket
C23_Witness ==
    /\ Sorted
    /\ THREADS = 2
    /\ 1 \in passes(maxBucketSize[0])
    /\ Len(pairsOf(0, 1)) >= 1 /\ Len(pairsOf(1, 1)) >= 1
    /\ \E a, b \in passPairs(1) : \E k \in 0..(K - 1), l \in 1..L :
          a # b /\ {a.G, a.H, b.G, b.H} \subseteq bucketRange(k, l)

\* sum over l in [0, len) of (lstart + l) * buckets[l] (buckets is 1-based here)
RECURSIVE RefColumn(_, _, _)
RefColumn(bs, lstart, len) ==
    IF len = 0 THEN RefZero
    ELSE RefAdd(RefColumn(bs, lstart, len - 1),
                RefMul(lstart + len - 1, projectiveToAffine(bs[len])))

ReduceColumnReturned == fnName = "reduceBucketsColumnProjective" /\ fnRet # <<>>

\* C24: for every lstart >= 1 and every buckets array of length len >= 1,
\* reduceBucketsColumnProjective(column, buckets, lstart) sets column to
\* the sum over l in [0, len) of (lstart + l) * buckets[l]; this includes
\* lstart = 1, where nothing is added to the triangle sum.
C24_ColumnIsWeightedSum ==
    ReduceColumnReturned =>
        SamePoint(projectiveToAffine(fnRet[1]),
                  RefColumn(fnArgs.buckets, fnArgs.lstart, Len(fnArgs.buckets)))

\* the call returned, for lstart = 1 or 4 and buckets none of which is the
\* identity, a point other than the identity
C24_Witness ==
    /\ ReduceColumnReturned
    /\ fnArgs.lstart \in {1, 4}
    /\ Len(fnArgs.buckets) >= 2
    /\ \A l \in DOMAIN fnArgs.buckets : fnArgs.buckets[l] # ProjZero
    /\ fnRet[1] # ProjZero
    /\ fnRet[1] = affineToProjective(RefColumn(fnArgs.buckets, fnArgs.lstart, Len(fnArgs.buckets)))

SplitReturned == fnName = "computeBucketsSplit" /\ fnRet # <<>>

\* the chunks returned, each with the thread it is given to
allChunks ==
    UNION {{[t |-> t, chunk |-> fnRet[1].chunksPerThread[t][i]] :
                i \in 1..Len(fnRet[1].chunksPerThread[t])} :
           t \in DOMAIN fnRet[1].chunksPerThread}

covers(ch, k, l) == ch.k = k /\ ch.lstart <= l /\ l < ch.lstart + ch.length

\* C25: for all K, L, THREADS >= 1 the chunks of computeBucketsSplit
\* partition the buckets: every (k, l), 0 <= k < K, 1 <= l <= L, lies in
\* exactly one chunk; every chunk has length >= 1 and stays inside one
\* window; the chunks of window k are numbered j = 0, ...,
\* nChunksPerPartition[k] - 1 without gaps or repeats.
C25_ChunksPartitionBuckets ==
    SplitReturned =>
        /\ \A k \in 0..(fnArgs.K - 1), l \in 1..fnArgs.L :
              Cardinality({a \in allChunks : covers(a.chunk, k, l)}) = 1
        /\ \A a \in allChunks :
              /\ a.chunk.length >= 1
              /\ a.chunk.k \in 0..(fnArgs.K - 1)
              /\ a.chunk.lstart >= 1
              /\ a.chunk.lstart + a.chunk.length - 1 <= fnArgs.L
        /\ Len(fnRet[1].nChunksPerPartition) = fnArgs.K
        /\ \A k \in 0..(fnArgs.K - 1) :
              LET ofK == {a \in allChunks : a.chunk.k = k}
                  n   == fnRet[1].nChunksPerPartition[k + 1]
              IN  /\ Cardinality(ofK) = n
                  /\ {a.chunk.j : a \in ofK} = 0..(n - 1)

\* the split was made for more than one window and more than one thread,
\* a window is cut into several chunks, and a thread has chunks of two windows
C25_Witness ==
    /\ SplitReturned
    /\ fnArgs.K >= 2 /\ fnArgs.THREADS >= 2
    /\ \E k \in 0..(fnArgs.K - 1) : fnRet[1].nChunksPerPartition[k + 1] >= 2
    /\ \E a, b \in allChunks : a.t = b.t /\ a.chunk.k # b.chunk.k
    /\ \A k \in 0..(fnArgs.K - 1), l \in 1..fnArgs.L :
          \E a \in allChunks : covers(a.chunk, k, l)

\* C27: for all K, L, THREADS >= 1 computeBucketsSplit returns a defined
\* (possibly empty) chunk list for every thread index t in [0, THREADS), so
\* that normalizeBucketsStorage is never handed an undefined chunk list,
\* also when THREADS > K * L or ceil(K * L / THREADS) * (THREADS - 1) >= K * L.
C27_EveryThreadHasChunkList ==
    SplitReturned =>
        \A t \in 0..(fnArgs.THREADS - 1) : t \in DOMAIN fnRet[1].chunksPerThread

\* in an msm call no thread fails on the length of its chunk list
C27_NoThreadFailsInReduce ==
    \A t \in Threads : pc[t] = "crashed" => t \in DOMAIN computeBucketsSplit(K, L, THREADS).chunksPerThread

\* the threads left without a chunk list are exactly those at or beyond
\* ceil(K * L / nt), nt = ceil(K * L / THREADS)
C27_ThreadsWithoutChunks ==
    SplitReturned =>
        LET kl == fnArgs.K * fnArgs.L
            nt == CeilDiv(kl, fnArgs.THREADS)
        IN  DOMAIN fnRet[1].chunksPerThread = 0..(CeilDiv(kl, nt) - 1)

\* worker t is past the shared-pointer preparation
SharedPointersPrepared(t) == arenaPc[t] \in {"columns", "prepare", "prepared"}

\* the addresses of the bucket memory the main thread allocated
BroadcastBucketMemory ==
    UNION {broadcast[1][k1]..(broadcast[1][k1] + 2 * fnArgs.N * sizeAffine - 1) :
               k1 \in DOMAIN broadcast[1]}

\* C29: after the shared-pointer preparation the global allocation offset
\* is the same in every worker: the K allocations of 2 * N * sizeAffine
\* bytes of the main thread advance it as far as the one allocation of
\* 2 * N * K * sizeAffine bytes of any other worker, so pointPtr, scalarPtr
\* and every columns[k][j], computed by each worker on its own, are the
\* same addresses in all of them (and lie outside the bucket memory).
C29_SameOffsetInEveryWorker ==
    fnName = "msm" =>
        /\ \A t, u \in ArenaThreads :
              /\ (SharedPointersPrepared(t) /\ arenaPc[t] = arenaPc[u]) =>
                    globalOffset[t] = globalOffset[u]
              /\ (arenaPc[t] = "prepared" /\ arenaPc[u] = "prepared") =>
                    pointers[t] = pointers[u]
              /\ (arenaPc[t] \in {"prepare", "prepared"} /\ arenaPc[u] \in {"prepare", "prepared"}) =>
                    pointers[t].columnss = pointers[u].columnss
        /\ \A t \in ArenaThreads :
              arenaPc[t] = "prepared" =>
                  /\ pointers[t].pointPtr \notin BroadcastBucketMemory
                  /\ pointers[t].scalarPtr \notin BroadcastBucketMemory
                  /\ \A k1 \in DOMAIN pointers[t].columnss : \A j1 \in DOMAIN pointers[t].columnss[k1] :
                        pointers[t].columnss[k1][j1] \notin BroadcastBucketMemory

\* the main thread and another worker have both prepared their pointers
\* for an msm of more than one window
C29_Witness ==
    /\ fnName = "msm"
    /\ fnArgs.K >= 2 /\ fnArgs.THREADS >= 2
    /\ \A t \in ArenaThreads : arenaPc[t] = "prepared"
    /\ globalOffset[0] = globalOffset[1]
    /\ pointers[0].pointPtr = pointers[1].pointPtr
    /\ pointers[1].pointPtr > broadcast[1][fnArgs.K]

\* the sum accumulated in bucket (k, l), the identity for an empty bucket
storedBucket(k, l) ==
    IF buckets[k][l - 1] = buckets[k][l] THEN RefZero ELSE RefNorm(bucketMem[buckets[k][l - 1]])

\* sum over l in [1, l] of l * bucket[k][l]
RECURSIVE weightedBuckets(_, _)
weightedBuckets(k, l) ==
    IF l = 0 THEN RefZero
    ELSE RefAdd(weightedBuckets(k, l - 1), RefMul(l, storedBucket(k, l)))

\* sum over j of columns[k][j] (the first n columns; 1-based here)
RECURSIVE columnsSum(_, _)
columnsSum(k, n) ==
    IF n = 0 THEN RefZero
    ELSE RefAdd(columnsSum(k, n - 1), projectiveToAffine(columnss[k][n]))

\* sum over k' < k of 2^(c * k') * P_k', P_k' the weighted sum of window k'
RECURSIVE windowsSum(_)
windowsSum(k) ==
    IF k = 0 THEN RefZero
    ELSE RefAdd(windowsSum(k - 1), RefMul(Pow2(c * (k - 1)) % Q, weightedBuckets(k - 1, L)))

\* C26: on the main thread after the last barrier, for every window k the
\* sum over j of columns[k][j] is the sum over l in [1, L] of
\* l * bucket[k][l]; the partition sum P_k the main thread computes (in
\* place, in columns[k][0]) is that sum; and the result written is the sum
\* over k < K of 2^(c * k) * P_k, i.e. exactly c doublings are made between
\* the additions of consecutive partition sums from k = K - 1 down to 0.
C26_PartitionAndFinalSums ==
    N >= 1 =>
        /\ (pc[0] = "final" /\ barriers = 4) =>
              \A k \in 0..(K - 1) :
                  SamePoint(columnsSum(k, Len(columnss[k])), weightedBuckets(k, L))
        /\ pc[0] = "done" =>
              /\ \A k \in 0..(K - 1) :
                    SamePoint(projectiveToAffine(columnss[k][1]), weightedBuckets(k, L))
              /\ SamePoint(projectiveToAffine(result), windowsSum(K))

\* the main thread has returned a point other than the identity from an
\* msm with c = 2 in which a window has two columns, both not the
\* identity, and two windows have partition sums other than the identity
C26_Witness ==
    /\ N >= 1 /\ pc[0] = "done"
    /\ c = 2
    /\ \E k \in 0..(K - 1) :
          /\ Len(columnss[k]) >= 2
          /\ columnss[k][2] # ProjZero
          /\ storedBucket(k, 1).nz
    /\ \A k \in 0..(K - 1) : columnss[k][1] # ProjZero
    /\ result # ProjZero
    /\ SamePoint(projectiveToAffine(result), windowsSum(K))

\* what the classification loop of batchAdd does with the pairs of the call
classified ==
    batchAddClassify([mem |-> baIn, tmp |-> <<>>, iAdd |-> <<>>, iDouble |-> <<>>,
                      iBoth |-> [i \in 1..baN |-> 0]], baS, baG, baH, baN, 1)

\* pair i contributes a denominator
contributes(i) ==
    \/ \E j \in DOMAIN classified.iAdd : classified.iAdd[j] = i
    \/ \E j \in DOMAIN classified.iDouble : classified.iDouble[j] = i

BatchAddCalled == baPc \in {"returned", "trapped"}

\* C30: in the safe batchAdd every denominator passed to batchInverse is
\* non-zero modulo p.  A pair in which G[i] or H[i] is the identity, or in
\* which x(G[i]) = x(H[i]) and the y differ, contributes none; every
\* denominator contributed, x(H[i]) - x(G[i]) for an addition and
\* 2 * y(G[i]) for a doubling, is not congruent to 0.  This is claimed also
\* for coordinates that are only weakly reduced, where equal field values
\* may have different limbs.
C30_DenominatorsNonZero ==
    BatchAddCalled =>
        /\ baPc # "trapped"
        /\ \A j \in DOMAIN classified.tmp : classified.tmp[j] % P # 0
        /\ Len(classified.tmp) = Cardinality({i \in 1..baN : contributes(i)})
        /\ \A i \in 1..baN :
              LET g == baIn[baG[i]]
                  h == baIn[baH[i]]
              IN  /\ (isZeroAffine(g) \/ isZeroAffine(h)) => ~contributes(i)
                  /\ (~isZeroAffine(g) /\ ~isZeroAffine(h)
                        /\ g.x % P = h.x % P /\ g.y % P # h.y % P) => ~contributes(i)

\* the call was made on a pair of points with the same x and on a pair
\* with different x, none the identity, and returned
C30_Witness ==
    /\ baPc = "returned"
    /\ baN = 2
    /\ Len(classified.iAdd) = 1 /\ Len(classified.iDouble) = 1
    /\ \A j \in DOMAIN classified.tmp : classified.tmp[j] % P # 0

\* the buckets (k, l) covered by the chunks of thread t; a thread that was
\* given no chunk list covers none
coveredBy(t) ==
    LET split == computeBucketsSplit(K, L, THREADS).chunksPerThread
    IN  IF t \notin DOMAIN split THEN {}
        ELSE {kl \in (0..(K - 1)) \X (1..L) :
                 \E i \in 1..Len(split[t]) :
                     /\ split[t][i].k = kl[1]
                     /\ split[t][i].lstart <= kl[2]
                     /\ kl[2] < split[t][i].lstart + split[t][i].length}

\* the addresses thread t reads when it normalises its buckets
normalizeReads(t) ==
    {buckets[kl[1]][kl[2] - 1] : kl \in {b \in coveredBy(t) : buckets[b[1]][b[2] - 1] # buckets[b[1]][b[2]]}}

\* the addresses of bucket sums thread u wrote since the last barrier
bucketWrites(u) == {w.i : w \in {v \in writes[u] : v.arr = "bucketMem"}}

\* C28: for every thread t the buckets covered by chunksPerThread[t], which
\* t reads when it normalises the bucket storage and reduces its columns,
\* are the buckets with index i in t's range(K * L), k = floor(i / L),
\* l = (i mod L) + 1, which t accumulated; so no worker reads a bucket sum
\* that another worker wrote since the last barrier.
C28_ChunksMatchAccumulationRange ==
    N >= 1 =>
        /\ \A t \in Threads : coveredBy(t) = accumulatedBy(t)
        /\ barriers = 3 =>
              \A t, u \in Threads : t # u => normalizeReads(t) \cap bucketWrites(u) = {}

\* after the third barrier two threads have written bucket sums and one of
\* them has gone on to normalise its buckets, some of which it wrote
C28_Witness ==
    /\ N >= 1 /\ barriers = 3
    /\ \E t, u \in Threads :
          /\ t # u
          /\ bucketWrites(u) # {}
          /\ normalizeReads(t) \cap bucketWrites(t) # {}
          /\ normalized[t] # <<>>
          /\ coveredBy(t) = accumulatedBy(t) /\ coveredBy(t) # {}

====
